---- MODULE Spec2Model ----
(***************************************************************************)
(* Model of the Keycloak -> SCIM reconciliation engine                     *)
(* (src/src/services/sync_service.py) together with the two adapters it    *)
(* drives (keycloak_client.py, scim_client.py).                            *)
(*                                                                         *)
(* Strings that are joined with "-" or tested with startswith are kept as  *)
(* the sequence of their "-"-separated segments: "a-b" is <<"a","b">>, so  *)
(* f"{x}-{y}" is x \o y.                                                   *)
(* User names are kept in the same form (<<"bob">>), since they are       *)
(* compared with, and logged next to, such names.                          *)
(* Every adapter call is one step.  A call ends "ok", "fail" (an           *)
(* httpx.HTTPStatusError, which the SCIM adapter turns into None / False   *)
(* / an empty page and the Keycloak adapter re-raises) or "raise" (any     *)
(* other exception, e.g. a transport error, which no adapter catches).     *)
(* A call that does not end "ok" leaves the remote system unchanged.       *)
(***************************************************************************)
EXTENDS Integers, Sequences, FiniteSets, TLC

\* ---------------------------------------------------------------- bounds
MaxRuns == 2
MaxFaults == 1

\* The most resources the destination of a paginated listing holds.
MaxTotal == 250

Runs == 1..MaxRuns

\* ------------------------------------------------------ program constants
\* page_size of list_all_users / list_all_groups
page_size == 100

\* The fields class Settings declares (the ones the engine reads).
SettingsFields ==
  {"keycloak_realm", "vcenter_name", "vcenter_name_attribute", "sync_delete_users"}

keycloak_realm == <<"REALM">>

\* ------------------------------------------------------------ the source
bob   == [id |-> "u1", username |-> <<"bob">>,   firstName |-> "Bob", lastName |-> ""]
alice == [id |-> "u2", username |-> <<"alice">>, firstName |-> "",    lastName |-> ""]
carol == [id |-> "u3", username |-> <<"carol">>, firstName |-> "",    lastName |-> ""]

\* KeycloakGroup: attributes holds the values of the vcenter_name_attribute
\* (hasAttr says whether the attribute map carries it at all).
KcGroup(id, name, hasAttr, vals, n) ==
  [id |-> id, name |-> name, hasAttr |-> hasAttr, attributes |-> vals, subGroupCount |-> n]

eng1   == KcGroup("g1", <<"eng">>, TRUE, {"v1"}, 1)
eng2   == KcGroup("g1", <<"eng">>, TRUE, {"v1", "v9"}, 2)
ops    == KcGroup("g2", <<"ops">>, TRUE, {"v2"}, 1)
admins == KcGroup("g3", <<"admins">>, FALSE, {}, 0)
devs   == KcGroup("g4", <<"devs">>, FALSE, {}, 0)
oncall == KcGroup("g5", <<"oncall">>, FALSE, {}, 0)

\* Group names that contain "-": the top-level group `eng-a` and the
\* subgroup `a-b`; `solo` has no subgroup, `deep` is a grandchild.
enga   == KcGroup("g6", <<"eng", "a">>, TRUE, {"v1"}, 1)
grp_b  == KcGroup("g7", <<"b">>, FALSE, {}, 1)
grp_ab == KcGroup("g8", <<"a", "b">>, FALSE, {}, 0)
solo   == KcGroup("g9", <<"solo">>, TRUE, {"v1"}, 0)
deep   == KcGroup("g10", <<"deep">>, FALSE, {}, 0)

GroupIds == {"g1", "g2", "g3", "g4", "g5", "g6", "g7", "g8", "g9", "g10"}

\* One filtered top-level group `eng` with the subgroup `admins` = {bob}.
SourceA ==
  [groups   |-> <<eng1>>,
   children |-> [g \in GroupIds |-> IF g = "g1" THEN <<admins>> ELSE <<>>],
   members  |-> [g \in GroupIds |-> IF g = "g3" THEN <<bob>> ELSE <<>>]]

\* `eng` (filtered) with admins = {bob, alice}, devs = {alice} and bob as a
\* direct member; `ops` (another vcenter) with oncall = {carol}.
SourceB ==
  [groups   |-> <<eng2, ops>>,
   children |-> [g \in GroupIds |->
                   CASE g = "g1" -> <<admins, devs>>
                     [] g = "g2" -> <<oncall>>
                     [] OTHER    -> <<>>],
   members  |-> [g \in GroupIds |->
                   CASE g = "g1" -> <<bob>>
                     [] g = "g3" -> <<bob, alice>>
                     [] g = "g4" -> <<alice>>
                     [] g = "g5" -> <<carol>>
                     [] OTHER    -> <<>>]]

\* `eng-a`/`b` = {bob} and `eng`/`a-b` = {alice}, two pairs with one
\* canonical name; carol only in `solo` (filtered, no subgroup) and in
\* `deep` (a subgroup of `b`).
SourceC ==
  [groups   |-> <<enga, eng1, solo>>,
   children |-> [g \in GroupIds |->
                   CASE g = "g6" -> <<grp_b>>
                     [] g = "g1" -> <<grp_ab>>
                     [] g = "g7" -> <<deep>>
                     [] OTHER    -> <<>>],
   members  |-> [g \in GroupIds |->
                   CASE g = "g7"  -> <<bob>>
                     [] g = "g8"  -> <<alice>>
                     [] g = "g9"  -> <<carol>>
                     [] g = "g10" -> <<carol>>
                     [] OTHER     -> <<>>]]

Sources == {SourceA, SourceB, SourceC}

\* ------------------------------------------------------- the destination
ScimUserRec(id, ext, name, disp) ==
  [id |-> id, externalId |-> ext, userName |-> name, displayName |-> disp]

ScimGroupRec(id, name, members) ==
  [id |-> id, displayName |-> name, members |-> members]

\* Nothing provisioned yet.
DestEmpty == [users |-> {}, groups |-> {}]

\* A foreign `alice` (another externalId), a `carol` nobody provisioned, and
\* the group REALM-eng-admins with stale members.
DestStale ==
  [users  |-> {ScimUserRec(1, "other-id", <<"alice">>, <<"Alice">>),
               ScimUserRec(2, "", <<"carol">>, <<"carol">>)},
   groups |-> {ScimGroupRec(3, <<"REALM", "eng", "admins">>, {1, 2})}]

\* bob was provisioned as `bobby` and renamed in the source afterwards.
DestRenamed ==
  [users  |-> {ScimUserRec(1, "u1", <<"bobby">>, <<"Bob">>)},
   groups |-> {}]

\* bob provisioned by an earlier run, and a `carol` nobody provisioned.
DestPartial ==
  [users  |-> {ScimUserRec(1, "u1", <<"bob">>, <<"Bob">>),
               ScimUserRec(2, "", <<"carol">>, <<"carol">>)},
   groups |-> {}]

Dests == {DestEmpty, DestStale, DestRenamed, DestPartial}

\* --------------------------------------------------------- pure helpers
Min(a, b) == IF a < b THEN a ELSE b

Range(s) == {s[k] : k \in 1..Len(s)}

\* F(x) and F(x, y).  TLC works an operator's argument out again at each
\* place the operator uses it; Once and Once2 have it worked out one time.
Once(x, F(_)) == CHOOSE res \in {F(v) : v \in {x}} : TRUE

Once2(x, y, F(_, _)) == CHOOSE res \in {F(v, w) : v \in {x}, w \in {y}} : TRUE

RECURSIVE Concat(_)
\* list.extend over a sequence of lists
Concat(ss) == IF ss = <<>> THEN <<>> ELSE Head(ss) \o Concat(Tail(ss))

RECURSIVE SeqById(_)
\* A set of destination resources as the server lists them: by ascending id.
SeqById(S) ==
  IF S = {} THEN <<>>
  ELSE Once(CHOOSE x \in S : \A y \in S : x.id <= y.id,
            LAMBDA m : <<m>> \o SeqById(S \ {m}))

\* d[k] = v on a Python dict kept as a list of [k, v] in insertion order: an
\* existing key keeps its place and takes the new value.
DictSet(d, k, v) ==
  IF \E n \in 1..Len(d) : d[n].k = k
  THEN [n \in 1..Len(d) |-> IF d[n].k = k THEN [k |-> k, v |-> v] ELSE d[n]]
  ELSE Append(d, [k |-> k, v |-> v])

\* d.get(k) as a list: <<v>> when the key is present, <<>> (None) otherwise.
DictGet(d, k) ==
  IF \E n \in 1..Len(d) : d[n].k = k
  THEN <<d[CHOOSE n \in 1..Len(d) : d[n].k = k].v>>
  ELSE <<>>

DictKeys(d) == {d[n].k : n \in 1..Len(d)}

DictValues(d) == [n \in 1..Len(d) |-> d[n].v]

RECURSIVE DictFromList(_, _, _)
\* {key(x): x for x in list}, built left to right from the dict d
DictFromList(list, key(_), d) ==
  Once2(list, d, LAMBDA l, dict :
    IF l = <<>> THEN dict
    ELSE DictFromList(Tail(l), key, DictSet(dict, key(Head(l)), Head(l))))

userNameOf(u) == u.userName

displayNameOf(g) == g.displayName

idOf(u) == u.id

\* ------------------------------------------------------ KeycloakClient
\* get_groups(filter_by_vcenter): the top-level groups, each with its detail,
\* filtered by the configured attribute; a falsy filter returns them all.
get_groups(kc, filter_by_vcenter) ==
  IF filter_by_vcenter = "" THEN kc.groups
  ELSE SelectSeq(kc.groups,
                 LAMBDA g : g.hasAttr /\ filter_by_vcenter \in g.attributes)

get_subgroups(kc, group_id) == kc.children[group_id]

get_group_members(kc, group_id) == kc.members[group_id]

\* ---------------------------------------------------------- SyncService
RECURSIVE TrackParents(_, _, _)
\* for subgroup in subgroups: parent_group_map[subgroup.id] = parent_group
TrackParents(subgroups, parent_group, parent_group_map) ==
  Once2(subgroups, parent_group_map, LAMBDA subs, map :
    IF subs = <<>> THEN map
    ELSE TrackParents(Tail(subs), parent_group,
                      DictSet(map, Head(subs).id, parent_group)))

RECURSIVE ExpandGroups_KeepsParent(_, _, _, _)
\* the loop keeping each filtered top-level group in the synced list
ExpandGroups_KeepsParent(kc, parent_groups, all_groups, parent_group_map) ==
  IF parent_groups = <<>>
  THEN [all_groups |-> all_groups, parent_group_map |-> parent_group_map]
  ELSE LET parent_group == Head(parent_groups)
           subgroups == get_subgroups(kc, parent_group.id)
       IN  IF parent_group.subGroupCount > 0
           THEN ExpandGroups_KeepsParent(kc, Tail(parent_groups),
                                         all_groups \o <<parent_group>> \o subgroups,
                                         TrackParents(subgroups, parent_group, parent_group_map))
           ELSE ExpandGroups_KeepsParent(kc, Tail(parent_groups),
                                         all_groups \o <<parent_group>>, parent_group_map)

RECURSIVE ExpandGroups(_, _, _, _)
\* the loop of _get_filtered_groups_with_subgroups over parent_groups
ExpandGroups(kc, parent_groups, all_groups, parent_group_map) ==
  IF parent_groups = <<>>
  THEN [all_groups |-> all_groups, parent_group_map |-> parent_group_map]
  ELSE LET parent_group == Head(parent_groups)
           subgroups == get_subgroups(kc, parent_group.id)
       IN  IF parent_group.subGroupCount > 0
           THEN ExpandGroups(kc, Tail(parent_groups), all_groups \o subgroups,
                             TrackParents(subgroups, parent_group, parent_group_map))
           ELSE ExpandGroups(kc, Tail(parent_groups), all_groups, parent_group_map)

_get_filtered_groups_with_subgroups(kc, vcenter_name) ==
  ExpandGroups(kc, get_groups(kc, vcenter_name), <<>>, <<>>)

\* the members of all groups, one entry per membership
_get_users_from_groups_NoDedup(kc, groups) ==
  Concat([n \in 1..Len(groups) |-> get_group_members(kc, groups[n].id)])

\* _get_users_from_groups: unique users, keyed by user id
_get_users_from_groups(kc, groups) ==
  DictValues(DictFromList(
    Concat([n \in 1..Len(groups) |-> get_group_members(kc, groups[n].id)]),
    idOf, <<>>))

\* f"{firstName or ''} {lastName or ''}".strip() or username, as its words
DisplayNameFor(kc_user) ==
  LET words == SelectSeq(<<kc_user.firstName, kc_user.lastName>>, LAMBDA w : w # "")
  IN  IF words = <<>> THEN kc_user.username ELSE words

\* _convert_keycloak_to_scim_user (id is None until the destination assigns it)
_convert_keycloak_to_scim_user(kc_user) ==
  [id |-> 0, externalId |-> kc_user.id, userName |-> kc_user.username,
   displayName |-> DisplayNameFor(kc_user)]

\* display_name of sync_groups / get_sync_preview:
\* f"{realm}-{parent.name if parent else 'unknown'}-{sub.name}"
CanonicalName(parent, kc_group) ==
  keycloak_realm \o (IF parent = <<>> THEN <<"unknown">> ELSE parent[1].name) \o kc_group.name

\* displayName of _convert_keycloak_to_scim_group
ConvertedGroupName(parent, kc_group) ==
  IF parent # <<>> THEN keycloak_realm \o parent[1].name \o kc_group.name
  ELSE keycloak_realm \o kc_group.name

\* ------------------------------------------------------------ ScimClient
\* The server's answer to GET ?startIndex=&count=
Page(resources, start_index, count) ==
  [Resources    |-> SubSeq(resources, start_index,
                           Min(start_index + count - 1, Len(resources))),
   totalResults |-> Len(resources)]

RECURSIVE ListAll(_, _, _, _, _)
\* The while loop of list_all_users / list_all_groups; the request number
\* failAt (0: none) fails.  A failed list_users returns the empty page with
\* totalResults 0, an exception breaks the loop: both return what was read.
ListAll(resources, start_index, all, request, failAt) ==
  IF request = failAt THEN all
  ELSE Once2(Page(resources, start_index, page_size), all, LAMBDA response, all_users :
         LET all2 == all_users \o response.Resources
         IN  IF start_index + Len(response.Resources) > response.totalResults THEN all2
             ELSE IF Len(response.Resources) < page_size THEN all2
             ELSE ListAll(resources, start_index + page_size, all2, request + 1, failAt))

list_all(resources, failAt) ==
  Once(resources, LAMBDA listed : ListAll(listed, 1, <<>>, 1, failAt))

\* The number of page requests a listing without failure makes.
Requests(resources) ==
  IF Len(resources) = 0 THEN 1 ELSE (Len(resources) + page_size - 1) \div page_size

\* ================================================================ state
VARIABLES
  kc,           \* the Keycloak realm: groups, children, members
  settings,     \* the Settings the engines are built from
  scim_users,   \* the destination's User resources
  scim_groups,  \* the destination's Group resources
  next_id,      \* the next identifier the destination assigns
  faults,       \* adapter calls that have failed so far
  eng,          \* eng[e]: the e-th SyncService instance and its call frame
  now,          \* the clock datetime.now() reads; it ticks at each return
  sync_state,   \* the SyncState singleton
  completed,    \* history: the runs in the order their calls returned
  seen,         \* history: what the last status query was answered
  pg,           \* one call of list_all_users / list_all_groups, page by page
  nm,           \* one subgroup through the naming steps of sync_groups, run by run
  scheduler     \* the SyncScheduler: last_sync and last_sync_result

vars == <<kc, settings, scim_users, scim_groups, next_id, faults, eng,
          now, sync_state, completed, seen, pg, nm, scheduler>>

\* sync_stats of __init__ and of the reset in sync_users
ZeroStats ==
  [users_created |-> 0, users_updated |-> 0, users_deleted |-> 0,
   groups_created |-> 0, groups_deleted |-> 0, errors |-> <<>>]

\* A SyncService as constructed.  History only: log (every adapter call the
\* instance made, with the loop element it was made at), pre_users / pre_groups (the destination when it was
\* built), entered / returned (sync_stats as each phase found and returned
\* it); preview holds what get_sync_preview returned.
NewEngine ==
  [pc |-> "new", kind |-> "none", phase |-> 0, sync_stats |-> ZeroStats,
   kc_groups |-> <<>>, parent_group_map |-> <<>>, kc_users |-> <<>>,
   existing_users_list |-> <<>>, existing_groups_list |-> <<>>,
   scim_users_list |-> <<>>, synced_group_names |-> {},
   i |-> 0, group_scim_id |-> 0, kc_members |-> <<>>,
   log |-> <<>>, pre_users |-> {}, pre_groups |-> {},
   entered |-> <<>>, returned |-> <<>>, preview |-> <<>>]

Kinds == {"full", "users", "groups", "preview"}

\* The routes' calls and the scheduler's job ("full" is POST /sync/manual).
Triggers == Kinds \cup {"scheduled"}

\* full_sync with the two awaits swapped
PhaseOrder_GroupsFirst(kind) ==
  CASE kind = "full"    -> <<"groups", "users">>
    [] kind = "scheduled" -> <<"groups", "users">>
    [] kind = "users"   -> <<"users">>
    [] kind = "groups"  -> <<"groups">>
    [] kind = "preview" -> <<"preview">>
    [] OTHER            -> <<>>

\* full_sync (the manual route and the scheduler's job): sync_users, then
\* sync_groups; the two other routes run one phase.
PhaseOrder(kind) ==
  CASE kind = "full"    -> <<"users", "groups">>
    [] kind = "scheduled" -> <<"users", "groups">>
    [] kind = "users"   -> <<"users">>
    [] kind = "groups"  -> <<"groups">>
    [] kind = "preview" -> <<"preview">>
    [] OTHER            -> <<>>

\* every phase, sync_groups too, starting from a zeroed sync_stats
EnterPhase_ResetsEveryPhase(r, n) ==
  LET r1 == IF n > 1 THEN [r EXCEPT !.returned = Append(@, r.sync_stats)] ELSE r
  IN  IF n > Len(PhaseOrder(r.kind)) THEN [r1 EXCEPT !.pc = "done", !.phase = n]
      ELSE CASE PhaseOrder(r.kind)[n] = "users" ->
                  [r1 EXCEPT !.pc = "u_groups", !.phase = n, !.sync_stats = ZeroStats,
                             !.entered = Append(@, ZeroStats)]
             [] PhaseOrder(r.kind)[n] = "groups" ->
                  [r1 EXCEPT !.pc = "g_groups", !.phase = n, !.sync_stats = ZeroStats,
                             !.entered = Append(@, ZeroStats)]
             [] OTHER ->
                  [r1 EXCEPT !.pc = "p_groups", !.phase = n]

\* The engine r entering the n-th phase of its run (sync_users resets
\* sync_stats, sync_groups does not), or returning after the last one.
EnterPhase(r, n) ==
  LET r1 == IF n > 1 THEN [r EXCEPT !.returned = Append(@, r.sync_stats)] ELSE r
  IN  IF n > Len(PhaseOrder(r.kind)) THEN [r1 EXCEPT !.pc = "done", !.phase = n]
      ELSE CASE PhaseOrder(r.kind)[n] = "users" ->
                  [r1 EXCEPT !.pc = "u_groups", !.phase = n, !.sync_stats = ZeroStats,
                             !.entered = Append(@, ZeroStats)]
             [] PhaseOrder(r.kind)[n] = "groups" ->
                  [r1 EXCEPT !.pc = "g_groups", !.phase = n,
                             !.entered = Append(@, r.sync_stats)]
             [] OTHER ->
                  [r1 EXCEPT !.pc = "p_groups", !.phase = n]

PhaseOf(r) == PhaseOrder(r.kind)[r.phase]

Logged(r, op, name, id, res) ==
  [r EXCEPT !.log = Append(@, [phase |-> PhaseOf(r), op |-> op, name |-> name,
                               id |-> id, res |-> res, members |-> <<>>,
                               at |-> r.i])]

\* A logged replace_group_members call with the member ids it carried.
LoggedMembers(r, name, id, res, member_ids) ==
  [r EXCEPT !.log = Append(@, [phase |-> PhaseOf(r), op |-> "replace_group_members",
                               name |-> name, id |-> id, res |-> res,
                               members |-> member_ids, at |-> r.i])]

\* the error entry appended twice
WithError_Twice(r, msg, name) ==
  [r EXCEPT !.sync_stats.errors = @ \o <<[msg |-> msg, name |-> name],
                                         [msg |-> msg, name |-> name]>>]

WithError(r, msg, name) ==
  [r EXCEPT !.sync_stats.errors = Append(@, [msg |-> msg, name |-> name])]

\* What an adapter call can end with: its natural result, or, while the
\* model's budget of failures lasts, an HTTP status error or an exception.
Results(natural) ==
  {natural} \cup (IF faults < MaxFaults THEN {"fail", "raise"} ELSE {})

Charged(res, natural) == IF res = natural THEN faults ELSE faults + 1

\* extract_vcenter_name leaves vcenter_name None ("" here) only when it was
\* not given and scim_endpoint_url carries no hostname; self.scim_url is that
\* URL, so every request of the ScimClient then raises before it is sent
\* (not an HTTPStatusError).
ScimReachable == settings.vcenter_name # ""

\* What a ScimClient call can end with.
ScimResults(natural) == IF ScimReachable THEN Results(natural) ELSE {"raise"}

ScimCharged(res, natural) == IF ScimReachable THEN Charged(res, natural) ELSE faults

\* The page request of a listing that fails (0: none).
ListFailures(resources) ==
  IF ~ScimReachable THEN {1}
  ELSE {0} \cup (IF faults < MaxFaults THEN 1..Requests(resources) ELSE {})

ListCharged(failAt) == IF failAt = 0 \/ ~ScimReachable THEN faults ELSE faults + 1

\* ------------------------------------------------------------- SyncState
\* SyncState.__new__: the three fields are None (0, "", <<>> here)
NoSync == [last_sync_time |-> 0, last_sync_type |-> "", last_sync_result |-> <<>>]

\* update_sync keeping the type it already holds
update_sync_KeepsFirstType(sync_type, result) ==
  [last_sync_time   |-> now + 1,
   last_sync_result |-> <<result>>,
   last_sync_type   |-> IF sync_state.last_sync_type = "" THEN sync_type
                        ELSE sync_state.last_sync_type]

\* SyncState.update_sync: three assignments, no await between them
update_sync(sync_type, result) ==
  [last_sync_time   |-> now + 1,
   last_sync_result |-> <<result>>,
   last_sync_type   |-> sync_type]

\* SyncState.get_sync_info
get_sync_info ==
  [last_sync_time   |-> sync_state.last_sync_time,
   last_sync_type   |-> sync_state.last_sync_type,
   last_sync_result |-> sync_state.last_sync_result]

\* The sync_type each caller passes to update_sync.
SyncType(kind) == IF kind = "full" THEN "manual" ELSE kind

\* SyncScheduler.__init__: last_sync and last_sync_result are None.  History
\* only: started and finished are the runs that wrote the two fields.
NoJobYet == [last_sync |-> <<>>, last_sync_result |-> <<>>, started |-> 0, finished |-> 0]

\* What sync_job raised is recorded as {"error": str(e)}.
ErrorResult == [error |-> "exception"]

\* sync_job around full_sync: self.last_sync = datetime.now() when the job
\* starts, self.last_sync_result = result when full_sync has returned.
JobRecords(e) ==
  scheduler' =
    IF eng[e].pc = "new" /\ eng'[e].kind = "scheduled"
    THEN [scheduler EXCEPT !.last_sync = <<now>>, !.started = e]
    ELSE IF eng[e].pc # "done" /\ eng'[e].pc = "done" /\ eng'[e].kind = "scheduled"
    THEN [scheduler EXCEPT !.last_sync_result = <<eng'[e].sync_stats>>, !.finished = e]
    ELSE scheduler

\* SyncScheduler.get_status (the fields about the last sync)
get_status ==
  [last_sync |-> scheduler.last_sync, last_sync_result |-> scheduler.last_sync_result]

\* health_check: "degraded" when the last result has a non-empty "errors"
health_check ==
  LET sync_info == get_sync_info
  IN  IF /\ sync_info.last_sync_result # <<>>
         /\ "errors" \in DOMAIN sync_info.last_sync_result[1]
         /\ sync_info.last_sync_result[1].errors # <<>>
      THEN "degraded" ELSE "healthy"

\* What the caller of run e does when its call returns in this step: the
\* three sync routes and sync_job pass the result to update_sync before
\* their next await; the preview route does not.
Completion(e) ==
  IF eng[e].pc # "done" /\ eng'[e].pc = "done"
  THEN /\ now' = now + 1
       /\ completed' = Append(completed, e)
       /\ sync_state' = IF eng'[e].kind = "preview" THEN sync_state
                        ELSE update_sync(SyncType(eng'[e].kind), eng'[e].sync_stats)
  ELSE UNCHANGED <<now, sync_state, completed>>

\* The process as started: no run yet, nothing recorded, no status query yet.
Idle ==
  /\ faults = 0
  /\ eng = [e \in Runs |-> NewEngine]
  /\ now = 0
  /\ sync_state = NoSync
  /\ completed = <<>>
  /\ seen = <<>>
  /\ scheduler = NoJobYet

\* No paginated listing is followed page by page.
NoPaging == [pc |-> "idle", total |-> 0, start_index |-> 1, all |-> <<>>,
             requests |-> 0, failed |-> FALSE, capped |-> FALSE]

NoNaming == [pc |-> "idle", parent |-> <<>>, kc_group |-> admins, runs |-> 0,
             synced |-> {}, names |-> {}, creates |-> 0]

Init ==
  /\ kc \in Sources
  /\ settings \in [vcenter_name : {"v1", ""}, sync_delete_users : BOOLEAN]
  /\ \E d \in Dests :
       /\ scim_users = d.users
       /\ scim_groups = d.groups
       /\ next_id = Cardinality(d.users) + Cardinality(d.groups) + 1
  /\ Idle
  /\ pg = NoPaging
  /\ nm = NoNaming

\* the routes and the job behind a single-run mutex
StartRun_Mutex(e, kind) ==
  /\ eng[e].pc = "new"
  /\ \A d \in Runs \ {e} : eng[d].pc \in {"new", "done"}
  /\ eng' = [eng EXCEPT ![e] =
               EnterPhase([NewEngine EXCEPT !.kind = kind, !.pc = "start",
                                            !.pre_users = scim_users,
                                            !.pre_groups = scim_groups], 1)]
  /\ Completion(e)
  /\ JobRecords(e)
  /\ UNCHANGED <<seen, pg, nm>>
  /\ UNCHANGED <<kc, settings, scim_users, scim_groups, next_id, faults>>

\* One of the routes (or the scheduler job) builds a SyncService and calls
\* full_sync / sync_users / sync_groups / get_sync_preview.  No route takes
\* a lock; the scheduler runs one instance of its job at a time
\* (max_instances is left at 1).  Runs are numbered in the order they start.
StartRun(e, kind) ==
  /\ eng[e].pc = "new"
  /\ \A d \in Runs : d < e => eng[d].pc # "new"
  /\ kind = "scheduled" =>
       \A d \in Runs : eng[d].kind = "scheduled" => eng[d].pc = "done"
  /\ eng' = [eng EXCEPT ![e] =
               EnterPhase([NewEngine EXCEPT !.kind = kind, !.pc = "start",
                                            !.pre_users = scim_users,
                                            !.pre_groups = scim_groups], 1)]
  /\ Completion(e)
  /\ JobRecords(e)
  /\ UNCHANGED <<seen, pg, nm>>
  /\ UNCHANGED <<kc, settings, scim_users, scim_groups, next_id, faults>>

\* ----------------------------------------------------------- sync_users
\* sync_users without its outer try/except: the exception leaves the call
UsersAbort_NoHandler(r) == [r EXCEPT !.pc = "escaped"]

\* a failed source read taken for an empty answer: the phase goes on to the
\* destination listing with what it has
UsersAbort_EmptyAnswer(r) == [r EXCEPT !.pc = "u_list"]

\* the except Exception of sync_users: one error, the phase returns
UsersAbort(r) == EnterPhase(WithError(r, "Sync failed", <<>>), r.phase + 1)

\* kc_groups, parent_group_map = await self._get_filtered_groups_with_subgroups()
UsersFetchGroups(e) ==
  /\ eng[e].pc = "u_groups"
  /\ \E res \in Results("ok") \ {"fail"} :
       LET r == Logged(eng[e], "kc_groups", <<>>, 0, res)
           got == _get_filtered_groups_with_subgroups(kc, settings.vcenter_name)
       IN  /\ eng' = [eng EXCEPT ![e] =
                        IF res = "ok"
                        THEN [r EXCEPT !.pc = "u_members",
                                       !.kc_groups = got.all_groups,
                                       !.parent_group_map = got.parent_group_map]
                        ELSE UsersAbort(r)]
           /\ faults' = Charged(res, "ok")
  /\ Completion(e)
  /\ JobRecords(e)
  /\ UNCHANGED <<seen, pg, nm>>
  /\ UNCHANGED <<kc, settings, scim_users, scim_groups, next_id>>

\* kc_users = await self._get_users_from_groups(kc_groups + parents)
UsersFetchMembers(e) ==
  /\ eng[e].pc = "u_members"
  /\ \E res \in Results("ok") \ {"fail"} :
       LET r == Logged(eng[e], "kc_members", <<>>, 0, res)
           all_groups_for_users == r.kc_groups \o DictValues(r.parent_group_map)
       IN  /\ eng' = [eng EXCEPT ![e] =
                        IF res = "ok"
                        THEN [r EXCEPT !.pc = "u_list",
                                       !.kc_users = _get_users_from_groups(kc, all_groups_for_users)]
                        ELSE UsersAbort(r)]
           /\ faults' = Charged(res, "ok")
  /\ Completion(e)
  /\ JobRecords(e)
  /\ UNCHANGED <<seen, pg, nm>>
  /\ UNCHANGED <<kc, settings, scim_users, scim_groups, next_id>>

\* the map rebuilt from the destination as it is when a user is handled
\* (read-modify-write per user)
existing_user_map_ReadsDestination(r) ==
  DictFromList(SeqById(scim_users), userNameOf, <<>>)

\* existing_user_map = {user.get('userName'): user for user in existing_users_list}
existing_user_map(r) == DictFromList(r.existing_users_list, userNameOf, <<>>)

\* the loop body updating a listed user whatever its externalId
UserAction_UpdatesConflict(r, kc_user) ==
  LET existing_user == DictGet(existing_user_map(r), kc_user.username)
  IN  IF existing_user # <<>>
      THEN IF existing_user[1].id # 0 THEN "update" ELSE "none"
      ELSE "create"

\* The branch the loop body of sync_users takes for kc_user.
UserAction(r, kc_user) ==
  LET existing_user == DictGet(existing_user_map(r), kc_user.username)
  IN  IF existing_user # <<>>
      THEN IF existing_user[1].externalId # kc_user.id THEN "skip"
           ELSE IF existing_user[1].id # 0 THEN "update" ELSE "none"
      ELSE "create"

\* the membership test of the deletion loop inverted
ShouldDeleteUser_Inverted(r, scim_username, scim_user) ==
  /\ scim_username \in {r.kc_users[n].username : n \in 1..Len(r.kc_users)}
  /\ scim_user.id # 0

\* the deletion loop matching by externalId instead of username
ShouldDeleteUser_ByExternalId(r, scim_username, scim_user) ==
  /\ scim_user.externalId \notin {r.kc_users[n].id : n \in 1..Len(r.kc_users)}
  /\ scim_user.id # 0

\* the deletion loop passing over the users that carry no externalId
ShouldDeleteUser_OwnedOnly(r, scim_username, scim_user) ==
  /\ scim_username \notin {r.kc_users[n].username : n \in 1..Len(r.kc_users)}
  /\ scim_user.id # 0
  /\ scim_user.externalId # ""

\* if scim_username not in kc_usernames (and user_id)
ShouldDeleteUser(r, scim_username, scim_user) ==
  /\ scim_username \notin {r.kc_users[n].username : n \in 1..Len(r.kc_users)}
  /\ scim_user.id # 0

\* The first index from n on whose element makes the loop await an adapter
\* call (0: none); everything before it runs without a suspension point.
NextIndex(len, n, Calls(_)) ==
  IF \E m \in n..len : Calls(m)
  THEN CHOOSE m \in n..len : Calls(m) /\ \A k \in n..(m - 1) : ~Calls(k)
  ELSE 0

\* The deletion part of sync_users from item n of existing_user_map on.
AdvanceDelete(r, n) ==
  LET items == existing_user_map(r)
      m == NextIndex(Len(items), n, LAMBDA k : ShouldDeleteUser(r, items[k].k, items[k].v))
  IN  IF m = 0 THEN EnterPhase(r, r.phase + 1)
      ELSE [r EXCEPT !.pc = "u_delete", !.i = m]

\* the deletion loop run without looking at sync_delete_users
AfterUserLoop_IgnoresSwitch(r) == AdvanceDelete(r, 1)

\* if self.settings.sync_delete_users: ... else: (log only)
AfterUserLoop(r) ==
  IF settings.sync_delete_users THEN AdvanceDelete(r, 1)
  ELSE EnterPhase(r, r.phase + 1)

\* the loop without its per-user try/except: a failed call ends the loop and
\* an exception reaches the outer handler
AdvanceUsers_StopOnFailure(r, n) ==
  LET m == NextIndex(Len(r.kc_users), n,
                     LAMBDA k : UserAction(r, r.kc_users[k]) \in {"create", "update"})
      last == IF r.log = <<>> THEN "ok" ELSE r.log[Len(r.log)].res
  IN  IF last = "raise"
      THEN EnterPhase([r EXCEPT !.sync_stats.errors =
                                  Append(SubSeq(@, 1, Len(@) - 1),
                                         [msg |-> "Sync failed", name |-> <<>>])],
                      r.phase + 1)
      ELSE IF m = 0 \/ last = "fail" THEN AfterUserLoop(r)
      ELSE [r EXCEPT !.pc = "u_loop", !.i = m]

\* the loop waiting at a user whose username is taken under another
\* externalId instead of passing over it
AdvanceUsers_WaitsAtConflict(r, n) ==
  LET m == NextIndex(Len(r.kc_users), n,
                     LAMBDA k : UserAction(r, r.kc_users[k]) \in {"create", "update", "skip"})
  IN  IF m = 0 THEN AfterUserLoop(r)
      ELSE [r EXCEPT !.pc = "u_loop", !.i = m]

\* The loop `for kc_user in kc_users` from element n on.
AdvanceUsers(r, n) ==
  LET m == NextIndex(Len(r.kc_users), n,
                     LAMBDA k : UserAction(r, r.kc_users[k]) \in {"create", "update"})
  IN  IF m = 0 THEN AfterUserLoop(r)
      ELSE [r EXCEPT !.pc = "u_loop", !.i = m]

\* existing_users_list = await self.scim_client.list_all_users()
UsersListExisting(e) ==
  /\ eng[e].pc = "u_list"
  /\ \E failAt \in ListFailures(SeqById(scim_users)) :
       /\ LET res == IF failAt = 0 THEN "ok" ELSE "fail"
              r == Logged(eng[e], "list_users", <<>>, 0, res)
          IN  eng' = [eng EXCEPT ![e] =
                        AdvanceUsers([r EXCEPT !.existing_users_list =
                                                 list_all(SeqById(scim_users), failAt)], 1)]
       /\ faults' = ListCharged(failAt)
  /\ Completion(e)
  /\ JobRecords(e)
  /\ UNCHANGED <<seen, pg, nm>>
  /\ UNCHANGED <<kc, settings, scim_users, scim_groups, next_id>>

\* POST /Users: the destination refuses a userName it already holds.
CanCreateUser(user) == \A u \in scim_users : u.userName # user.userName

\* ScimUser.to_scim_payload: an update carries the id and no externalId, a
\* creation the externalId and no id (an absent key is <<>>).
to_scim_payload(user, for_update) ==
  [userName |-> user.userName, displayName |-> user.displayName,
   id |-> IF for_update /\ user.id # 0 THEN <<user.id>> ELSE <<>>,
   externalId |-> IF for_update /\ user.id # 0 THEN <<>> ELSE <<user.externalId>>]

\* The resource POST /Users makes of the payload of create_user, under the
\* id the destination assigns.
PostUser(scim_user, new_id) ==
  LET payload == to_scim_payload(scim_user, FALSE)
  IN  ScimUserRec(new_id, payload.externalId[1], payload.userName, payload.displayName)

\* result = await self.scim_client.create_user(scim_user)
UsersCreate(e) ==
  /\ eng[e].pc = "u_loop"
  /\ LET kc_user == eng[e].kc_users[eng[e].i]
         scim_user == _convert_keycloak_to_scim_user(kc_user)
         natural == IF CanCreateUser(scim_user) THEN "ok" ELSE "fail"
     IN  /\ UserAction(eng[e], kc_user) = "create"
         /\ \E res \in ScimResults(natural) :
              LET r == Logged(eng[e], "create_user", kc_user.username,
                              IF res = "ok" THEN next_id ELSE 0, res)
                  r2 == CASE res = "ok" ->
                               [r EXCEPT !.sync_stats.users_created = @ + 1]
                          [] res = "fail" ->
                               WithError(r, "Failed to create user", kc_user.username)
                          [] OTHER ->
                               WithError(r, "Error syncing user", kc_user.username)
              IN  /\ eng' = [eng EXCEPT ![e] = AdvanceUsers(r2, r.i + 1)]
                  /\ scim_users' = IF res = "ok"
                                   THEN scim_users \cup {PostUser(scim_user, next_id)}
                                   ELSE scim_users
                  /\ next_id' = IF res = "ok" THEN next_id + 1 ELSE next_id
                  /\ faults' = ScimCharged(res, natural)
  /\ Completion(e)
  /\ JobRecords(e)
  /\ UNCHANGED <<seen, pg, nm>>
  /\ UNCHANGED <<kc, settings, scim_groups>>

\* PUT /Users/{id} with the payload of update_user (user.id = user_id first):
\* the destination takes what the payload carries and keeps the externalId
\* it holds when the payload has none.
PutUser(users, user_id, scim_user) ==
  LET payload == to_scim_payload([scim_user EXCEPT !.id = user_id], TRUE)
  IN  {IF u.id = user_id
       THEN [u EXCEPT !.userName = payload.userName,
                      !.displayName = payload.displayName,
                      !.externalId = IF payload.externalId = <<>> THEN @
                                     ELSE payload.externalId[1]]
       ELSE u : u \in users}

\* result = await self.scim_client.update_user(user_id, scim_user)
UsersUpdate(e) ==
  /\ eng[e].pc = "u_loop"
  /\ LET kc_user == eng[e].kc_users[eng[e].i]
         scim_user == _convert_keycloak_to_scim_user(kc_user)
         user_id == DictGet(existing_user_map(eng[e]), kc_user.username)[1].id
         natural == IF \E u \in scim_users : u.id = user_id THEN "ok" ELSE "fail"
     IN  /\ UserAction(eng[e], kc_user) = "update"
         /\ \E res \in ScimResults(natural) :
              LET r == Logged(eng[e], "update_user", kc_user.username, user_id, res)
                  r2 == CASE res = "ok" ->
                               [r EXCEPT !.sync_stats.users_updated = @ + 1]
                          [] res = "fail" ->
                               WithError(r, "Failed to update user", kc_user.username)
                          [] OTHER ->
                               WithError(r, "Error syncing user", kc_user.username)
              IN  /\ eng' = [eng EXCEPT ![e] = AdvanceUsers(r2, r.i + 1)]
                  /\ scim_users' = IF res = "ok" THEN PutUser(scim_users, user_id, scim_user)
                                   ELSE scim_users
                  /\ faults' = ScimCharged(res, natural)
  /\ Completion(e)
  /\ JobRecords(e)
  /\ UNCHANGED <<seen, pg, nm>>
  /\ UNCHANGED <<kc, settings, scim_groups, next_id>>

\* a destination that takes a deleted user out of the groups it was in
GroupsAfterDeleteUser_Cascade(groups, user_id) ==
  {[g EXCEPT !.members = @ \ {user_id}] : g \in groups}

\* DELETE /Users/{id} addresses the user resource alone; the groups stay as
\* they are, with the member references they hold.
GroupsAfterDeleteUser(groups, user_id) == groups

\* success = await self.scim_client.delete_user(user_id)
UsersDelete(e) ==
  /\ eng[e].pc = "u_delete"
  /\ LET item == existing_user_map(eng[e])[eng[e].i]
         user_id == item.v.id
         natural == IF \E u \in scim_users : u.id = user_id THEN "ok" ELSE "fail"
     IN  \E res \in ScimResults(natural) :
           LET r == Logged(eng[e], "delete_user", item.k, user_id, res)
               r2 == CASE res = "ok" ->
                            [r EXCEPT !.sync_stats.users_deleted = @ + 1]
                       [] res = "fail" ->
                            WithError(r, "Failed to delete user", item.k)
                       [] OTHER ->
                            WithError(r, "Error deleting user", item.k)
           IN  /\ eng' = [eng EXCEPT ![e] = AdvanceDelete(r2, r.i + 1)]
               /\ scim_users' = IF res = "ok" THEN {u \in scim_users : u.id # user_id}
                                ELSE scim_users
               /\ scim_groups' = IF res = "ok" THEN GroupsAfterDeleteUser(scim_groups, user_id)
                                 ELSE scim_groups
               /\ faults' = ScimCharged(res, natural)
  /\ Completion(e)
  /\ JobRecords(e)
  /\ UNCHANGED <<seen, pg, nm>>
  /\ UNCHANGED <<kc, settings, next_id>>

\* ---------------------------------------------------------- sync_groups
\* the outer except Exception of sync_groups: one error, the phase returns
GroupsAbort(r) == EnterPhase(WithError(r, "Group sync failed", <<>>), r.phase + 1)

\* existing_groups_map = {g.get('displayName'): g for g in existing_groups_list}
existing_groups_map(r) == DictFromList(r.existing_groups_list, displayNameOf, <<>>)

RECURSIVE IndexUsers(_, _)
\* for user in scim_users: if external_id and scim_id: map[external_id] = scim_id
IndexUsers(users, map) ==
  Once2(users, map, LAMBDA rest, dict :
    IF rest = <<>> THEN dict
    ELSE LET user == Head(rest)
         IN  IndexUsers(Tail(rest),
                        IF user.externalId # "" /\ user.id # 0
                        THEN DictSet(dict, user.externalId, user.id)
                        ELSE dict))

kc_to_scim_user_map(r) == IndexUsers(r.scim_users_list, <<>>)

\* display_name of the subgroup the group loop is at
DisplayNameAt(r, n) ==
  CanonicalName(DictGet(r.parent_group_map, r.kc_groups[n].id), r.kc_groups[n])

\* Destination groups that carry the naming prefix f"{realm}-" and were not
\* synced in this run: what the deletion loop of sync_groups would delete.
GroupsToDelete(r) ==
  LET items == existing_groups_map(r)
      realm_prefix == keycloak_realm
  IN  {n \in 1..Len(items) :
         /\ Len(items[n].k) > Len(realm_prefix)
         /\ SubSeq(items[n].k, 1, Len(realm_prefix)) = realm_prefix
         /\ items[n].k \notin r.synced_group_names
         /\ items[n].v.id # 0}

\* if self.settings.sync_delete_groups: Settings declares no such field, so
\* the attribute access raises AttributeError inside the outer try.
AfterGroupLoop(r) ==
  IF "sync_delete_groups" \notin SettingsFields THEN GroupsAbort(r)
  ELSE [r EXCEPT !.pc = "g_delete", !.i = 0]

RECURSIVE AdvanceGroups(_, _)
\* The loop `for kc_group in kc_groups` from element n on, up to its first
\* adapter call: create_group for a new name, get_group_members otherwise
\* (an existing group without an id is passed over).
AdvanceGroups(r, n) ==
  Once(r, LAMBDA r1 :
    IF n > Len(r1.kc_groups) THEN AfterGroupLoop(r1)
    ELSE LET display_name == DisplayNameAt(r1, n)
             existing_group == DictGet(existing_groups_map(r1), display_name)
             r2 == [r1 EXCEPT !.i = n, !.synced_group_names = @ \cup {display_name}]
         IN  IF existing_group # <<>>
             THEN IF existing_group[1].id # 0
                  THEN [r2 EXCEPT !.group_scim_id = existing_group[1].id, !.pc = "g_members"]
                  ELSE AdvanceGroups(r2, n + 1)
             ELSE [r2 EXCEPT !.pc = "g_create"])

\* kc_groups, parent_group_map = await self._get_filtered_groups_with_subgroups()
GroupsFetchGroups(e) ==
  /\ eng[e].pc = "g_groups"
  /\ \E res \in Results("ok") \ {"fail"} :
       LET r == Logged(eng[e], "kc_groups", <<>>, 0, res)
           got == _get_filtered_groups_with_subgroups(kc, settings.vcenter_name)
       IN  /\ eng' = [eng EXCEPT ![e] =
                        IF res = "ok"
                        THEN [r EXCEPT !.pc = "g_listg",
                                       !.kc_groups = got.all_groups,
                                       !.parent_group_map = got.parent_group_map]
                        ELSE GroupsAbort(r)]
           /\ faults' = Charged(res, "ok")
  /\ Completion(e)
  /\ JobRecords(e)
  /\ UNCHANGED <<seen, pg, nm>>
  /\ UNCHANGED <<kc, settings, scim_users, scim_groups, next_id>>

\* existing_groups_list = await self.scim_client.list_all_groups()
GroupsListGroups(e) ==
  /\ eng[e].pc = "g_listg"
  /\ \E failAt \in ListFailures(SeqById(scim_groups)) :
       /\ LET res == IF failAt = 0 THEN "ok" ELSE "fail"
              r == Logged(eng[e], "list_groups", <<>>, 0, res)
          IN  eng' = [eng EXCEPT ![e] =
                        [r EXCEPT !.existing_groups_list =
                                    list_all(SeqById(scim_groups), failAt),
                                  !.pc = "g_listu"]]
       /\ faults' = ListCharged(failAt)
  /\ Completion(e)
  /\ JobRecords(e)
  /\ UNCHANGED <<seen, pg, nm>>
  /\ UNCHANGED <<kc, settings, scim_users, scim_groups, next_id>>

\* scim_users = await self.scim_client.list_all_users()
GroupsListUsers(e) ==
  /\ eng[e].pc = "g_listu"
  /\ \E failAt \in ListFailures(SeqById(scim_users)) :
       /\ LET res == IF failAt = 0 THEN "ok" ELSE "fail"
              r == Logged(eng[e], "list_users", <<>>, 0, res)
          IN  eng' = [eng EXCEPT ![e] =
                        AdvanceGroups([r EXCEPT !.scim_users_list =
                                                  list_all(SeqById(scim_users), failAt),
                                                !.synced_group_names = {}], 1)]
       /\ faults' = ListCharged(failAt)
  /\ Completion(e)
  /\ JobRecords(e)
  /\ UNCHANGED <<seen, pg, nm>>
  /\ UNCHANGED <<kc, settings, scim_users, scim_groups, next_id>>

\* result = await self.scim_client.create_group(scim_group)
GroupsCreate(e) ==
  /\ eng[e].pc = "g_create"
  /\ LET kc_group == eng[e].kc_groups[eng[e].i]
         parent_group == DictGet(eng[e].parent_group_map, kc_group.id)
         display_name == DisplayNameAt(eng[e], eng[e].i)
         scim_group == ScimGroupRec(next_id, ConvertedGroupName(parent_group, kc_group), {})
     IN  \E res \in ScimResults("ok") :
           LET r == Logged(eng[e], "create_group", display_name,
                           IF res = "ok" THEN next_id ELSE 0, res)
           IN  /\ eng' = [eng EXCEPT ![e] =
                            CASE res = "ok" ->
                                   [r EXCEPT !.sync_stats.groups_created = @ + 1,
                                             !.group_scim_id = next_id,
                                             !.pc = "g_members"]
                              [] res = "fail" ->
                                   AdvanceGroups(WithError(r, "Failed to create group",
                                                           display_name), r.i + 1)
                              [] OTHER ->
                                   AdvanceGroups(WithError(r, "Error syncing group",
                                                           kc_group.name), r.i + 1)]
               /\ scim_groups' = IF res = "ok" THEN scim_groups \cup {scim_group}
                                 ELSE scim_groups
               /\ next_id' = IF res = "ok" THEN next_id + 1 ELSE next_id
               /\ faults' = ScimCharged(res, "ok")
  /\ Completion(e)
  /\ JobRecords(e)
  /\ UNCHANGED <<seen, pg, nm>>
  /\ UNCHANGED <<kc, settings, scim_users>>

\* kc_members = await self.keycloak_client.get_group_members(kc_group.id)
GroupsFetchMembers(e) ==
  /\ eng[e].pc = "g_members"
  /\ LET kc_group == eng[e].kc_groups[eng[e].i]
     IN  \E res \in Results("ok") \ {"fail"} :
           LET r == Logged(eng[e], "kc_members", kc_group.name, 0, res)
           IN  /\ eng' = [eng EXCEPT ![e] =
                            IF res = "ok"
                            THEN [r EXCEPT !.kc_members = get_group_members(kc, kc_group.id),
                                           !.pc = "g_replace"]
                            ELSE AdvanceGroups(WithError(r, "Error syncing group",
                                                         kc_group.name), r.i + 1)]
               /\ faults' = Charged(res, "ok")
  /\ Completion(e)
  /\ JobRecords(e)
  /\ UNCHANGED <<seen, pg, nm>>
  /\ UNCHANGED <<kc, settings, scim_users, scim_groups, next_id>>

RECURSIVE MapMembers_StopAtUnmapped(_, _)
\* the mapping loop ending at the first member without a destination user
MapMembers_StopAtUnmapped(kc_members, map) ==
  IF kc_members = <<>> THEN <<>>
  ELSE IF DictGet(map, Head(kc_members).id) = <<>> THEN <<>>
  ELSE DictGet(map, Head(kc_members).id) \o MapMembers_StopAtUnmapped(Tail(kc_members), map)

RECURSIVE MapMembers(_, _)
\* scim_member_ids: the members found in kc_to_scim_user_map, in order
MapMembers(kc_members, map) ==
  Once2(kc_members, map, LAMBDA members, dict :
    IF members = <<>> THEN <<>>
    ELSE DictGet(dict, Head(members).id) \o MapMembers(Tail(members), dict))

scim_member_ids(r) == MapMembers(r.kc_members, kc_to_scim_user_map(r))

\* PATCH /Groups/{id} with op replace, path members
PatchReplaceMembers(groups, group_id, member_ids) ==
  {IF g.id = group_id THEN [g EXCEPT !.members = Range(member_ids)] ELSE g : g \in groups}

\* success = await self.scim_client.replace_group_members(group_scim_id, scim_member_ids)
GroupsReplace(e) ==
  /\ eng[e].pc = "g_replace"
  /\ LET kc_group == eng[e].kc_groups[eng[e].i]
         display_name == DisplayNameAt(eng[e], eng[e].i)
         group_id == eng[e].group_scim_id
         natural == IF \E g \in scim_groups : g.id = group_id THEN "ok" ELSE "fail"
     IN  \E res \in ScimResults(natural) :
           LET r == LoggedMembers(eng[e], display_name, group_id, res,
                                  scim_member_ids(eng[e]))
               r2 == CASE res = "ok" -> r
                       [] res = "fail" ->
                            WithError(r, "Failed to update members for group", display_name)
                       [] OTHER ->
                            WithError(r, "Error syncing group", kc_group.name)
           IN  /\ eng' = [eng EXCEPT ![e] = AdvanceGroups(r2, r.i + 1)]
               /\ scim_groups' = IF res = "ok"
                                 THEN PatchReplaceMembers(scim_groups, group_id,
                                                          scim_member_ids(eng[e]))
                                 ELSE scim_groups
               /\ faults' = ScimCharged(res, natural)
  /\ Completion(e)
  /\ JobRecords(e)
  /\ UNCHANGED <<seen, pg, nm>>
  /\ UNCHANGED <<kc, settings, scim_users, next_id>>

\* ----------------------------------------------------- get_sync_preview
\* the handler of get_sync_preview recording the failure in sync_stats, as
\* the handlers of sync_users and sync_groups do
PreviewReturn_RecordsError(r, result) ==
  IF result.error
  THEN [WithError(r, "Failed to generate sync preview", <<>>)
          EXCEPT !.pc = "done", !.phase = r.phase + 1, !.preview = <<result>>]
  ELSE [r EXCEPT !.pc = "done", !.phase = r.phase + 1, !.preview = <<result>>]

\* get_sync_preview returns its dict, or {"error": ...} from its handler.
PreviewReturn(r, result) ==
  [r EXCEPT !.pc = "done", !.phase = r.phase + 1, !.preview = <<result>>]

\* What get_sync_preview computes once its four reads are in; reading
\* settings.sync_delete_groups raises AttributeError, which its handler
\* turns into {"error": ...}.
PreviewResult(r) ==
  LET existing_usernames == {u.userName : u \in Range(r.existing_users_list)}
      kc_usernames == {u.username : u \in Range(r.kc_users)}
      names(users) == [n \in 1..Len(users) |-> users[n].username]
      items == existing_groups_map(r)
  IN  IF "sync_delete_groups" \notin SettingsFields THEN [error |-> TRUE]
      ELSE [error |-> FALSE,
            users_to_create |->
              names(SelectSeq(r.kc_users, LAMBDA u : u.username \notin existing_usernames)),
            users_to_update |->
              names(SelectSeq(r.kc_users, LAMBDA u : u.username \in existing_usernames)),
            users_to_delete |->
              IF settings.sync_delete_users
              THEN SelectSeq(r.existing_users_list,
                             LAMBDA u : u.userName \notin kc_usernames)
              ELSE <<>>,
            groups_to_sync |->
              [n \in 1..Len(r.kc_groups) |-> DisplayNameAt(r, n)],
            groups_to_delete |->
              {items[n].k : n \in GroupsToDelete(r)}]

\* kc_groups, parent_group_map = await self._get_filtered_groups_with_subgroups()
PreviewFetchGroups(e) ==
  /\ eng[e].pc = "p_groups"
  /\ \E res \in Results("ok") \ {"fail"} :
       LET r == Logged(eng[e], "kc_groups", <<>>, 0, res)
           got == _get_filtered_groups_with_subgroups(kc, settings.vcenter_name)
       IN  /\ eng' = [eng EXCEPT ![e] =
                        IF res = "ok"
                        THEN [r EXCEPT !.pc = "p_members",
                                       !.kc_groups = got.all_groups,
                                       !.parent_group_map = got.parent_group_map]
                        ELSE PreviewReturn(r, [error |-> TRUE])]
           /\ faults' = Charged(res, "ok")
  /\ Completion(e)
  /\ JobRecords(e)
  /\ UNCHANGED <<seen, pg, nm>>
  /\ UNCHANGED <<kc, settings, scim_users, scim_groups, next_id>>

\* kc_users = await self._get_users_from_groups(all_groups_for_users)
PreviewFetchMembers(e) ==
  /\ eng[e].pc = "p_members"
  /\ \E res \in Results("ok") \ {"fail"} :
       LET r == Logged(eng[e], "kc_members", <<>>, 0, res)
           all_groups_for_users == r.kc_groups \o DictValues(r.parent_group_map)
       IN  /\ eng' = [eng EXCEPT ![e] =
                        IF res = "ok"
                        THEN [r EXCEPT !.pc = "p_listu",
                                       !.kc_users = _get_users_from_groups(kc, all_groups_for_users)]
                        ELSE PreviewReturn(r, [error |-> TRUE])]
           /\ faults' = Charged(res, "ok")
  /\ Completion(e)
  /\ JobRecords(e)
  /\ UNCHANGED <<seen, pg, nm>>
  /\ UNCHANGED <<kc, settings, scim_users, scim_groups, next_id>>

\* existing_users_list = await self.scim_client.list_all_users()
PreviewListUsers(e) ==
  /\ eng[e].pc = "p_listu"
  /\ \E failAt \in ListFailures(SeqById(scim_users)) :
       /\ LET res == IF failAt = 0 THEN "ok" ELSE "fail"
              r == Logged(eng[e], "list_users", <<>>, 0, res)
          IN  eng' = [eng EXCEPT ![e] =
                        [r EXCEPT !.existing_users_list =
                                    list_all(SeqById(scim_users), failAt),
                                  !.pc = "p_listg"]]
       /\ faults' = ListCharged(failAt)
  /\ Completion(e)
  /\ JobRecords(e)
  /\ UNCHANGED <<seen, pg, nm>>
  /\ UNCHANGED <<kc, settings, scim_users, scim_groups, next_id>>

\* existing_groups_list = await self.scim_client.list_all_groups(), and the
\* rest of get_sync_preview
PreviewListGroups(e) ==
  /\ eng[e].pc = "p_listg"
  /\ \E failAt \in ListFailures(SeqById(scim_groups)) :
       /\ LET res == IF failAt = 0 THEN "ok" ELSE "fail"
              r == Logged(eng[e], "list_groups", <<>>, 0, res)
              r2 == [r EXCEPT !.existing_groups_list =
                                list_all(SeqById(scim_groups), failAt),
                              !.synced_group_names =
                                {DisplayNameAt(r, n) : n \in 1..Len(r.kc_groups)}]
          IN  eng' = [eng EXCEPT ![e] = PreviewReturn(r2, PreviewResult(r2))]
       /\ faults' = ListCharged(failAt)
  /\ Completion(e)
  /\ JobRecords(e)
  /\ UNCHANGED <<seen, pg, nm>>
  /\ UNCHANGED <<kc, settings, scim_users, scim_groups, next_id>>

\* ----------------------------- list_all_users / list_all_groups by page
\* The resources a listing pages through: total of them, numbered.
Numbered(total) == [k \in 1..total |-> k]

\* The number of resources the destination puts in one response at most.
PageLimits == {page_size \div 2, page_size}

\* One call of list_all_users (list_all_groups is the same loop) against a
\* destination that holds total resources.
PagingInit ==
  /\ kc = SourceA
  /\ settings = [vcenter_name |-> "v1", sync_delete_users |-> FALSE]
  /\ scim_users = {}
  /\ scim_groups = {}
  /\ next_id = 1
  /\ Idle
  /\ \E total \in 0..MaxTotal :
       pg = [NoPaging EXCEPT !.pc = "request", !.total = total]
  /\ nm = NoNaming

\* One pass of the while loop: response = await self.list_users(start_index,
\* page_size).  The destination answers with at most limit resources; a
\* failed list_users returns the empty page with totalResults 0, an exception
\* breaks the loop.
PageRequest ==
  /\ pg.pc = "request"
  /\ \E limit \in PageLimits, res \in {"ok", "fail", "raise"} :
       LET asked == Page(Numbered(pg.total), pg.start_index, page_size)
           response == IF res = "ok"
                       THEN Page(Numbered(pg.total), pg.start_index, Min(page_size, limit))
                       ELSE [Resources |-> <<>>, totalResults |-> 0]
           p == [pg EXCEPT !.requests = @ + 1,
                           !.failed = @ \/ res # "ok",
                           !.capped = @ \/ Len(response.Resources) < Len(asked.Resources)]
           all_users == pg.all \o response.Resources
       IN  pg' = IF res = "raise" THEN [p EXCEPT !.pc = "done"]
                 ELSE IF pg.start_index + Len(response.Resources) > response.totalResults
                 THEN [p EXCEPT !.pc = "done", !.all = all_users]
                 ELSE IF Len(response.Resources) < page_size
                 THEN [p EXCEPT !.pc = "done", !.all = all_users]
                 ELSE [p EXCEPT !.all = all_users, !.start_index = @ + page_size]
  /\ UNCHANGED <<kc, settings, scim_users, scim_groups, next_id, faults, eng,
                 now, sync_state, completed, seen, nm, scheduler>>

\* ---------------------------------------------------------------- naming
\* The top-level groups and the subgroups of the sources.
NamedParents == {eng1, eng2, ops, enga, solo}

NamedSubgroups == {admins, devs, oncall, grp_b, grp_ab, deep}

\* sync_groups between `parent_group = parent_group_map.get(kc_group.id)`
\* and the result of create_group, for one subgroup: nm.parent is what the
\* map returns (<<>> for None), nm.names the display names the destination
\* holds, nm.synced the synced_group_names of the runs so far.
NamingInit ==
  /\ kc = SourceA
  /\ settings = [vcenter_name |-> "v1", sync_delete_users |-> FALSE]
  /\ scim_users = {}
  /\ scim_groups = {}
  /\ next_id = 1
  /\ Idle
  /\ pg = NoPaging
  /\ \E parent \in {<<>>} \cup {<<p>> : p \in NamedParents}, kc_group \in NamedSubgroups :
       nm = [NoNaming EXCEPT !.pc = "loop", !.parent = parent, !.kc_group = kc_group]

\* One run's pass of the loop body for the subgroup: display_name is added
\* to synced_group_names and looked up in existing_groups_map (the listing
\* of the destination); when it is absent, the group made by
\* _convert_keycloak_to_scim_group is created.
NamingPass ==
  /\ nm.pc = "loop"
  /\ LET display_name == CanonicalName(nm.parent, nm.kc_group)
         existing_group == display_name \in nm.names
         scim_group == ConvertedGroupName(nm.parent, nm.kc_group)
     IN  nm' = [nm EXCEPT !.runs = @ + 1,
                          !.pc = IF nm.runs + 1 = MaxRuns THEN "done" ELSE "loop",
                          !.synced = @ \cup {display_name},
                          !.names = IF existing_group THEN @ ELSE @ \cup {scim_group},
                          !.creates = IF existing_group THEN @ ELSE @ + 1]
  /\ UNCHANGED <<kc, settings, scim_users, scim_groups, next_id, faults, eng,
                 now, sync_state, completed, seen, pg, scheduler>>

\* ---------------------------------------------------------------- system
\* Every earlier run has returned.
Sequential(e) == \A d \in Runs : d < e => eng[d].pc = "done"

\* Runs that follow one another.
Next ==
  \E e \in Runs :
    \/ \E kind \in Kinds : Sequential(e) /\ StartRun(e, kind)
    \/ UsersFetchGroups(e)
    \/ UsersFetchMembers(e)
    \/ UsersListExisting(e)
    \/ UsersCreate(e)
    \/ UsersUpdate(e)
    \/ UsersDelete(e)
    \/ GroupsFetchGroups(e)
    \/ GroupsListGroups(e)
    \/ GroupsListUsers(e)
    \/ GroupsCreate(e)
    \/ GroupsFetchMembers(e)
    \/ GroupsReplace(e)
    \/ PreviewFetchGroups(e)
    \/ PreviewFetchMembers(e)
    \/ PreviewListUsers(e)
    \/ PreviewListGroups(e)

Spec == Init /\ [][Next]_vars

\* One paginated listing, page by page.
SpecPaging == PagingInit /\ [][PageRequest]_vars

\* One subgroup named run after run.
SpecNaming == NamingInit /\ [][NamingPass]_vars

\* Either runs that follow one another or one paginated listing; every
\* adapter call returns, successfully or with a failure.
LiveInit == Init \/ PagingInit

RunStep == pg.pc = "idle" /\ Next

NextLive == RunStep \/ PageRequest

SpecLive ==
  LiveInit /\ [][NextLive]_vars /\ WF_vars(RunStep) /\ WF_vars(PageRequest)

\* GET /health answers with get_sync_info().
StatusQuery ==
  /\ seen' = <<[info |-> get_sync_info, after |-> completed,
                 status |-> health_check, job |-> get_status,
                 started |-> scheduler.started, finished |-> scheduler.finished]>>
  /\ UNCHANGED <<kc, settings, scim_users, scim_groups, next_id, faults, eng,
                 now, sync_state, completed, pg, nm, scheduler>>

\* The inputs of the runs that overlap.
ConcurrentInit ==
  /\ kc = SourceA
  /\ settings \in [vcenter_name : {"v1"}, sync_delete_users : BOOLEAN]
  /\ \E d \in {DestEmpty, DestStale} :
       /\ scim_users = d.users
       /\ scim_groups = d.groups
       /\ next_id = Cardinality(d.users) + Cardinality(d.groups) + 1
  /\ Idle
  /\ pg = NoPaging
  /\ nm = NoNaming

\* Runs that overlap: every await of a run is a point where another run,
\* or a status query, takes its turn on the event loop.
NextConcurrent ==
  \/ StatusQuery
  \/ \E e \in Runs :
       \/ \E kind \in Triggers : StartRun(e, kind)
       \/ UsersFetchGroups(e)
       \/ UsersFetchMembers(e)
       \/ UsersListExisting(e)
       \/ UsersCreate(e)
       \/ UsersUpdate(e)
       \/ UsersDelete(e)
       \/ GroupsFetchGroups(e)
       \/ GroupsListGroups(e)
       \/ GroupsListUsers(e)
       \/ GroupsCreate(e)
       \/ GroupsFetchMembers(e)
       \/ GroupsReplace(e)
       \/ PreviewFetchGroups(e)
       \/ PreviewFetchMembers(e)
       \/ PreviewListUsers(e)
       \/ PreviewListGroups(e)

SpecConcurrent == ConcurrentInit /\ [][NextConcurrent]_vars

\* sync_job's `except Exception`: the job raised outside full_sync, here
\* while SyncService(self.settings) was set up, after last_sync was written;
\* {"error": str(e)} goes to last_sync_result and to the SyncState.
JobFails(e) ==
  /\ eng[e].pc = "new"
  /\ \A d \in Runs : d < e => eng[d].pc # "new"
  /\ \A d \in Runs : eng[d].kind = "scheduled" => eng[d].pc = "done"
  /\ faults < MaxFaults
  /\ faults' = faults + 1
  /\ eng' = [eng EXCEPT ![e] = [NewEngine EXCEPT !.kind = "scheduled", !.pc = "done"]]
  /\ scheduler' = [scheduler EXCEPT !.last_sync = <<now>>, !.started = e,
                                    !.last_sync_result = <<ErrorResult>>, !.finished = e]
  /\ sync_state' = update_sync("scheduled", ErrorResult)
  /\ now' = now + 1
  /\ completed' = Append(completed, e)
  /\ UNCHANGED <<kc, settings, scim_users, scim_groups, next_id, seen, pg, nm>>

NextJobs == NextConcurrent \/ \E e \in Runs : JobFails(e)

\* Overlapping runs, status queries, and scheduled jobs that may fail.
SpecJobs == ConcurrentInit /\ [][NextJobs]_vars

\* ============================================================ properties
UserWriteOps == {"create_user", "update_user", "delete_user"}

GroupWriteOps == {"create_group", "replace_group_members", "delete_group"}

WriteOps == UserWriteOps \cup GroupWriteOps

ListOps == {"list_users", "list_groups"}

\* What the source says, whatever a run managed to read of it.
Filtered == _get_filtered_groups_with_subgroups(kc, settings.vcenter_name)

SyncedGroups == Filtered.all_groups

EligibleUsers ==
  _get_users_from_groups(kc, Filtered.all_groups \o DictValues(Filtered.parent_group_map))

EligibleNames == {EligibleUsers[n].username : n \in 1..Len(EligibleUsers)}

\* Run e has returned and no later run has started.
JustDone(e) == eng[e].pc = "done" /\ \A d \in Runs : d > e => eng[d].pc = "new"

\* sync_users of run e has returned.
UsersPhaseOver(e) ==
  /\ "users" \in Range(PhaseOrder(eng[e].kind))
  /\ \/ eng[e].pc = "done"
     \/ eng[e].phase > 0 /\ PhaseOf(eng[e]) # "users"

Count(log, Test(_)) == Cardinality({n \in 1..Len(log) : Test(log[n])})

\* C5: full_sync runs sync_users to completion and only then sync_groups: in
\* a full run every call of the user phase precedes every call of the group
\* phase, no group write precedes a user write, and the listing that builds
\* the group phase's externalId index follows every user write.
C5_UsersThenGroups ==
  \A e \in Runs :
    eng[e].kind = "full" =>
      LET log == eng[e].log
      IN  \A a, b \in 1..Len(log) :
            /\ (log[a].phase = "groups" /\ log[b].phase = "users") => b < a
            /\ (log[a].op \in GroupWriteOps /\ log[b].op \in UserWriteOps) => b < a
            /\ (log[a].phase = "groups" /\ log[a].op = "list_users"
                  /\ log[b].op \in UserWriteOps) => b < a

\* A full run that created a user, then read the index, then wrote a group.
C5_Witness ==
  \E e \in Runs :
    /\ eng[e].kind = "full" /\ eng[e].pc = "done"
    /\ \E a, b, c \in 1..Len(eng[e].log) :
         /\ a < b /\ b < c
         /\ eng[e].log[a].op = "create_user" /\ eng[e].log[a].res = "ok"
         /\ eng[e].log[b].op = "list_users" /\ eng[e].log[b].phase = "groups"
         /\ eng[e].log[c].op = "replace_group_members" /\ eng[e].log[c].res = "ok"

\* C7: with sync_delete_users off no run issues delete_user, users_deleted
\* stays 0, and a destination user outside the eligible source set keeps its
\* record, is the target of no call and is named by no error.
C7_NoDeleteWhenDisabled ==
  ~settings.sync_delete_users =>
    \A e \in Runs :
      /\ \A n \in 1..Len(eng[e].log) : eng[e].log[n].op # "delete_user"
      /\ eng[e].sync_stats.users_deleted = 0
      /\ \A u \in eng[e].pre_users :
           u.userName \notin EligibleNames =>
             /\ u \in scim_users
             /\ \A n \in 1..Len(eng[e].log) :
                  eng[e].log[n].op \in UserWriteOps =>
                    eng[e].log[n].id # u.id /\ eng[e].log[n].name # u.userName
             /\ \A n \in 1..Len(eng[e].sync_stats.errors) :
                  eng[e].sync_stats.errors[n].name # u.userName

\* sync_users returned with deletion off while the destination held a user
\* (carol) that no filtered source group contains.
C7_Witness ==
  /\ ~settings.sync_delete_users
  /\ \E e \in Runs :
       /\ UsersPhaseOver(e)
       /\ Count(eng[e].log, LAMBDA x : x.op = "list_users" /\ x.phase = "users"
                                         /\ x.res = "ok") = 1
       /\ \E u \in eng[e].pre_users : u.userName \notin EligibleNames

\* C8: with sync_delete_users on, every user a run deletes is a user of the
\* snapshot the run listed before its first write, and no user the run
\* created or updated earlier is deleted by it.
C8_DeletesFromSnapshot ==
  settings.sync_delete_users =>
    \A e \in Runs :
      LET log == eng[e].log
      IN  \A b \in 1..Len(log) :
            log[b].op = "delete_user" =>
              /\ \E u \in Range(eng[e].existing_users_list) : u.id = log[b].id
              /\ \A a \in 1..(b - 1) :
                   /\ log[a].op \in {"create_user", "update_user"} =>
                        ~(log[a].res = "ok" /\ log[a].id = log[b].id)
                   /\ log[a].op \in UserWriteOps =>
                        log[a].name # log[b].name

\* A run that created one user and updated another, then deleted a third.
C8_Witness ==
  /\ settings.sync_delete_users
  /\ \E e \in Runs :
       \E a, b, c \in 1..Len(eng[e].log) :
         /\ a < c /\ b < c
         /\ eng[e].log[a].op = "create_user" /\ eng[e].log[a].res = "ok"
         /\ eng[e].log[b].op = "update_user" /\ eng[e].log[b].res = "ok"
         /\ eng[e].log[c].op = "delete_user" /\ eng[e].log[c].res = "ok"

UserErrorMsgs ==
  {"Failed to create user", "Failed to update user", "Error syncing user",
   "Failed to delete user", "Error deleting user"}

FailedUserWrites(r) == SelectSeq(r.log, LAMBDA x : x.op \in UserWriteOps /\ x.res # "ok")

UserErrors(r) == SelectSeq(r.sync_stats.errors, LAMBDA x : x.msg \in UserErrorMsgs)

\* C10: each failed create_user / update_user / delete_user (a returned
\* failure or an exception) adds exactly one error naming that user, in call
\* order, and counts nothing: a counter is the number of its successful
\* calls.  The run goes on: once sync_users has returned without a phase
\* abort, every eligible user was created or updated unless the snapshot holds
\* its username under another externalId, and with deletion on a delete was
\* issued for every snapshot user outside the eligible set.
C10_PerUserFailureRecorded ==
  \A e \in Runs :
    LET r == eng[e]
        names == {r.kc_users[k].username : k \in 1..Len(r.kc_users)}
    IN  /\ Len(UserErrors(r)) = Len(FailedUserWrites(r))
        /\ \A n \in 1..Len(UserErrors(r)) :
             UserErrors(r)[n].name = FailedUserWrites(r)[n].name
        /\ r.sync_stats.users_created =
             Count(r.log, LAMBDA x : x.op = "create_user" /\ x.res = "ok")
        /\ r.sync_stats.users_updated =
             Count(r.log, LAMBDA x : x.op = "update_user" /\ x.res = "ok")
        /\ r.sync_stats.users_deleted =
             Count(r.log, LAMBDA x : x.op = "delete_user" /\ x.res = "ok")
        /\ (UsersPhaseOver(e)
              /\ \A n \in 1..Len(r.sync_stats.errors) :
                   r.sync_stats.errors[n].msg # "Sync failed") =>
             /\ \A k \in 1..Len(r.kc_users) :
                  \/ \E n \in 1..Len(r.log) :
                       /\ r.log[n].op \in {"create_user", "update_user"}
                       /\ r.log[n].name = r.kc_users[k].username
                  \/ \E d \in Range(r.existing_users_list) :
                       /\ d.userName = r.kc_users[k].username
                       /\ d.externalId # r.kc_users[k].id
             /\ settings.sync_delete_users =>
                  \A d \in Range(r.existing_users_list) :
                    d.userName \notin names =>
                      \E n \in 1..Len(r.log) :
                        r.log[n].op = "delete_user" /\ r.log[n].id = d.id

\* sync_users returned after a user call failed and a later user call was
\* still made.
C10_Witness ==
  \E e \in Runs :
    /\ UsersPhaseOver(e)
    /\ \E a, b \in 1..Len(eng[e].log) :
         /\ a < b
         /\ eng[e].log[a].op \in UserWriteOps /\ eng[e].log[a].res # "ok"
         /\ eng[e].log[b].op \in UserWriteOps /\ eng[e].log[b].res = "ok"

Counters(stats) ==
  <<stats.users_created, stats.users_updated, stats.users_deleted,
    stats.groups_created, stats.groups_deleted>>

\* C1: a second full_sync right after a first one, the source unchanged and
\* every adapter call of both runs succeeding, returns all five counters 0.
C1_SecondFullSyncCountsNothing ==
  (/\ eng[1].kind = "full" /\ eng[1].pc = "done"
   /\ eng[2].kind = "full" /\ eng[2].pc = "done"
   /\ \A e \in {1, 2} : \A n \in 1..Len(eng[e].log) : eng[e].log[n].res = "ok")
  => Counters(eng[2].sync_stats) = <<0, 0, 0, 0, 0>>

\* The source ids the members of a destination group stand for.
MappedBack(group) == {u.externalId : u \in {x \in scim_users : x.id \in group.members}}

\* The members of a source subgroup that have a destination counterpart.
Provisioned(kc_group) ==
  {m.id : m \in {x \in Range(get_group_members(kc, kc_group.id)) :
                   \E u \in scim_users : u.externalId = x.id}}

\* C2: when sync_groups has returned, every synced subgroup has a destination
\* group under its canonical name whose members, mapped back through
\* externalId, are exactly the subgroup's members that have a destination
\* user.  Stated for the runs whose source reads and group writes all
\* succeeded, which is less than the claim says.
C2_MembershipConverged ==
  \A e \in Runs :
    (/\ JustDone(e) /\ "groups" \in Range(PhaseOrder(eng[e].kind))
     /\ \A n \in 1..Len(eng[e].log) :
          eng[e].log[n].phase = "groups" /\ eng[e].log[n].op \notin ListOps
            => eng[e].log[n].res = "ok")
    => \A k \in 1..Len(SyncedGroups) :
         \E g \in scim_groups :
           /\ g.displayName =
                CanonicalName(DictGet(Filtered.parent_group_map, SyncedGroups[k].id),
                              SyncedGroups[k])
           /\ MappedBack(g) = Provisioned(SyncedGroups[k])

\* C3: an eligible source user whose username a destination user holds under
\* another externalId: sync_users makes no call for it, counts nothing for
\* it, records no error naming it, and the destination record stays as it
\* was.
C3_ConflictLeftAlone ==
  \A e \in Runs :
    \A k \in 1..Len(eng[e].kc_users) :
      \A d \in eng[e].pre_users :
        (d.userName = eng[e].kc_users[k].username
           /\ d.externalId # eng[e].kc_users[k].id) =>
          /\ \A n \in 1..Len(eng[e].log) :
               eng[e].log[n].op \in UserWriteOps =>
                 /\ eng[e].log[n].name # d.userName
                 /\ eng[e].log[n].id # d.id
          /\ \A n \in 1..Len(eng[e].sync_stats.errors) :
               eng[e].sync_stats.errors[n].name # d.userName
          /\ (~(\E later \in Runs : later > e /\ eng[later].pc # "new") => d \in scim_users)

\* C4: an eligible source user whose id is the externalId of a user of the
\* snapshot is never created, whatever username that user carries.
C4_MatchedByExternalId ==
  \A e \in Runs :
    \A k \in 1..Len(eng[e].kc_users) :
      (\E d \in Range(eng[e].existing_users_list) :
         d.externalId = eng[e].kc_users[k].id) =>
        \A n \in 1..Len(eng[e].log) :
          ~(eng[e].log[n].op = "create_user"
              /\ eng[e].log[n].name = eng[e].kc_users[k].username)

\* C6: from an empty destination and the source eng/admins/{bob (u1)}, with
\* every call succeeding, full_sync creates bob with externalId u1, creates
\* REALM-eng-admins with exactly bob as member, and returns users_created 1,
\* groups_created 1 and no error.
C6_Scenario ==
  (/\ kc = SourceA
   /\ eng[1].kind = "full" /\ JustDone(1)
   /\ eng[1].pre_users = {} /\ eng[1].pre_groups = {}
   /\ \A n \in 1..Len(eng[1].log) : eng[1].log[n].res = "ok")
  => /\ \E u \in scim_users :
          /\ u.externalId = "u1" /\ u.userName = <<"bob">>
          /\ scim_users = {u}
          /\ scim_groups = {ScimGroupRec(u.id + 1, <<"REALM", "eng", "admins">>, {u.id})}
     /\ eng[1].sync_stats.users_created = 1
     /\ eng[1].sync_stats.groups_created = 1
     /\ eng[1].sync_stats.errors = <<>>

\* C9: after a destination listing of a phase has failed, that phase makes
\* no destination write (the failed listing is not taken for the snapshot).
C9_FailedListingAbortsPhase ==
  \A e \in Runs :
    \A a, b \in 1..Len(eng[e].log) :
      (/\ a < b
       /\ eng[e].log[a].op \in ListOps /\ eng[e].log[a].res # "ok"
       /\ eng[e].log[b].phase = eng[e].log[a].phase)
      => eng[e].log[b].op \notin WriteOps

\* The positions of a call in progress, and the two a caller sees.
CallPcs ==
  {"u_groups", "u_members", "u_list", "u_loop", "u_delete",
   "g_groups", "g_listg", "g_listu", "g_create", "g_members", "g_replace",
   "p_groups", "p_members", "p_listu", "p_listg"}

SyncKinds == {"full", "users", "groups"}


\* C11: whatever adapter call fails, and however, sync_users, sync_groups
\* and full_sync never end in an exception: the engine is always either at
\* one of its adapter calls, on an element its loop can process, or has
\* returned, and what it has returned is its SyncResult with all six fields.
C11_AlwaysReturnsResult ==
  \A e \in Runs :
    eng[e].kind \in SyncKinds =>
      /\ eng[e].pc \in CallPcs \cup {"done"}
      /\ eng[e].pc = "u_loop" =>
           /\ eng[e].i \in 1..Len(eng[e].kc_users)
           /\ UserAction(eng[e], eng[e].kc_users[eng[e].i]) \in {"create", "update"}
      /\ eng[e].pc = "u_delete" => eng[e].i \in 1..Len(existing_user_map(eng[e]))
      /\ eng[e].pc \in {"g_create", "g_members", "g_replace"} =>
           eng[e].i \in 1..Len(eng[e].kc_groups)
      /\ eng[e].pc = "done" =>
           /\ eng[e].returned # <<>>
           /\ eng[e].returned[Len(eng[e].returned)] = eng[e].sync_stats
           /\ DOMAIN eng[e].sync_stats = DOMAIN ZeroStats

\* A full_sync that returned although a source read of its user phase
\* raised, and whose group phase still ran.
C11_Witness ==
  \E e \in Runs :
    /\ eng[e].kind = "full" /\ eng[e].pc = "done"
    /\ \E a, c \in 1..Len(eng[e].log) :
         /\ a < c
         /\ eng[e].log[a].phase = "users" /\ eng[e].log[a].res = "raise"
         /\ eng[e].log[a].op \in {"kc_groups", "kc_members"}
         /\ eng[e].log[c].phase = "groups"

\* The source reads of run e's group phase all succeeded.
GroupReadsOk(e) ==
  \A n \in 1..Len(eng[e].log) :
    (eng[e].log[n].phase = "groups" /\ eng[e].log[n].op \in {"kc_groups", "kc_members"})
      => eng[e].log[n].res = "ok"

\* The calls of run e's log that are op on the destination resource id.
CallsOn(e, op, id) ==
  {n \in 1..Len(eng[e].log) : eng[e].log[n].op = op /\ eng[e].log[n].id = id}

\* The synced subgroups of run e whose canonical name is name.
Named(e, name) ==
  {j \in 1..Len(eng[e].kc_groups) : DisplayNameAt(eng[e], j) = name}

\* C13: a synced subgroup whose canonical name a destination group already
\* carries when sync_groups runs: no create_group and no delete_group is
\* issued for it, and once sync_groups has returned (its source reads having
\* succeeded) one replace_group_members per subgroup of that name was issued
\* on the existing group's id, carrying only ids of listed users that are
\* current members of the subgroup.
C13_ExistingGroupReused ==
  \A e \in Runs :
    (eng[e].pc = "done" /\ "groups" \in Range(PhaseOrder(eng[e].kind)) /\ GroupReadsOk(e)) =>
      \A k \in 1..Len(eng[e].kc_groups) :
        \A g \in eng[e].pre_groups :
          g.displayName = DisplayNameAt(eng[e], k) =>
            /\ \A n \in 1..Len(eng[e].log) :
                 eng[e].log[n].op \in {"create_group", "delete_group"} =>
                   eng[e].log[n].name # g.displayName /\ eng[e].log[n].id # g.id
            /\ Cardinality(CallsOn(e, "replace_group_members", g.id)) =
                 Cardinality(Named(e, g.displayName))
            /\ \A n \in CallsOn(e, "replace_group_members", g.id) :
                 \E j \in Named(e, g.displayName) :
                   \A m \in Range(eng[e].log[n].members) :
                     \E u \in Range(eng[e].scim_users_list) :
                       /\ u.id = m
                       /\ u.externalId \in
                            {x.id : x \in Range(get_group_members(kc, eng[e].kc_groups[j].id))}

\* C14: within one run at most one create_group is issued per canonical
\* name, also when two top-level/subgroup pairs compute the same name.
C14_OneCreatePerCanonicalName ==
  \A e \in Runs :
    \A m, n \in 1..Len(eng[e].log) :
      (/\ m # n
       /\ eng[e].log[m].op = "create_group"
       /\ eng[e].log[n].op = "create_group")
      => eng[e].log[m].name # eng[e].log[n].name

\* C16: with the filter value unset no group is selected: no subgroup is
\* synced, no user is eligible, and no create, update or membership call is
\* issued.
C16_UnsetFilterSelectsNothing ==
  settings.vcenter_name = "" =>
    \A e \in Runs :
      /\ eng[e].kc_groups = <<>>
      /\ eng[e].kc_users = <<>>
      /\ \A n \in 1..Len(eng[e].log) :
           eng[e].log[n].op \notin
             {"create_user", "update_user", "create_group", "replace_group_members"}

\* C15 as claimed: every invocation of sync_users and of sync_groups finds
\* sync_stats zeroed when it starts.
C15_EveryPhaseStartsFromZero ==
  \A e \in Runs :
    \A k \in 1..Len(eng[e].entered) : eng[e].entered[k] = ZeroStats

\* C15 as amended: sync_users starts from a zeroed SyncResult; sync_groups
\* does not reset, it starts from what the engine holds: zeros on a new
\* engine, the result of sync_users inside full_sync.  What sync_users
\* returns counts its own invocation only, and a run's result tallies the
\* calls of that run's engine and of no other.
C15_ResetAtRunStart ==
  \A e \in Runs :
    LET r == eng[e]
        order == PhaseOrder(r.kind)
        inUsers(x) == x.phase = "users" /\ x.res = "ok"
    IN  /\ \A k \in 1..Len(r.entered) :
             r.entered[k] = IF order[k] = "users" \/ k = 1 THEN ZeroStats
                            ELSE r.returned[k - 1]
        /\ \A k \in 1..Len(r.returned) :
             order[k] = "users" =>
               Counters(r.returned[k]) =
                 <<Count(r.log, LAMBDA x : inUsers(x) /\ x.op = "create_user"),
                   Count(r.log, LAMBDA x : inUsers(x) /\ x.op = "update_user"),
                   Count(r.log, LAMBDA x : inUsers(x) /\ x.op = "delete_user"),
                   0, 0>>
        /\ Counters(r.sync_stats) =
             <<Count(r.log, LAMBDA x : x.op = "create_user" /\ x.res = "ok"),
               Count(r.log, LAMBDA x : x.op = "update_user" /\ x.res = "ok"),
               Count(r.log, LAMBDA x : x.op = "delete_user" /\ x.res = "ok"),
               Count(r.log, LAMBDA x : x.op = "create_group" /\ x.res = "ok"),
               Count(r.log, LAMBDA x : x.op = "delete_group" /\ x.res = "ok")>>

\* A full_sync that returned user and group counters together: its group
\* phase started from the non-zero result of its user phase.
C15_Witness ==
  \E e \in Runs :
    /\ eng[e].kind = "full" /\ eng[e].pc = "done"
    /\ Len(eng[e].entered) = 2
    /\ eng[e].entered[2] # ZeroStats
    /\ eng[e].sync_stats.users_created > 0
    /\ eng[e].sync_stats.groups_created > 0

\* The top-level groups the configured filter selects.
FilteredTop == Range(get_groups(kc, settings.vcenter_name))

TopLevelIds == {p.id : p \in Range(kc.groups)}

\* The canonical names of the immediate children of filtered top-level groups.
ChildNames ==
  UNION {{keycloak_realm \o p.name \o c.name : c \in Range(kc.children[p.id])} :
           p \in FilteredTop}

\* C17: the synced group list holds only immediate children of filtered
\* top-level groups and no top-level group, and every create_group is for
\* the name of such a child: the group it creates carries that name.
C17_OnlyImmediateChildren ==
  \A e \in Runs :
    /\ \A k \in 1..Len(eng[e].kc_groups) :
         /\ \E p \in FilteredTop : eng[e].kc_groups[k] \in Range(kc.children[p.id])
         /\ eng[e].kc_groups[k].id \notin TopLevelIds
    /\ \A n \in 1..Len(eng[e].log) :
         eng[e].log[n].op = "create_group" =>
           /\ eng[e].log[n].name \in ChildNames
           /\ eng[e].log[n].res = "ok" =>
                \E g \in scim_groups :
                  g.id = eng[e].log[n].id /\ g.displayName \in ChildNames

\* sync_groups created the groups of two subgroups of a filtered top-level
\* group.
C17_Witness ==
  \E e \in Runs :
    /\ eng[e].pc = "done"
    /\ Len(eng[e].kc_groups) >= 2
    /\ Count(eng[e].log, LAMBDA x : x.op = "create_group" /\ x.res = "ok") >= 2

\* Run e has aggregated its eligible users.
UsersFetched(e) ==
  \E n \in 1..Len(eng[e].log) :
    /\ eng[e].log[n].op = "kc_members" /\ eng[e].log[n].name = <<>>
    /\ eng[e].log[n].res = "ok"

\* The source ids of the direct members of a set of source groups.
MembersOf(groups) == UNION {{m.id : m \in Range(kc.members[g.id])} : g \in groups}

EachOnce(users) ==
  \A m, n \in 1..Len(users) : m # n => users[m].id # users[n].id

\* C18 as claimed: the eligible users are, each once, the members of all
\* synced subgroups and of all filtered top-level groups.
C18_EligibleIsUnionOfAllFiltered ==
  \A e \in Runs :
    UsersFetched(e) =>
      /\ EachOnce(eng[e].kc_users)
      /\ {u.id : u \in Range(eng[e].kc_users)} =
           MembersOf(Range(eng[e].kc_groups) \cup FilteredTop)

\* C18 as amended: the eligible users are, each once, the members of all
\* synced subgroups and of the filtered top-level groups that are the parent
\* of at least one synced subgroup.
C18_EligibleIsUnionWithParents ==
  \A e \in Runs :
    UsersFetched(e) =>
      /\ EachOnce(eng[e].kc_users)
      /\ {u.id : u \in Range(eng[e].kc_users)} =
           MembersOf(Range(eng[e].kc_groups)
                       \cup {p \in FilteredTop :
                               \E g \in Range(eng[e].kc_groups) :
                                 g \in Range(kc.children[p.id])})

\* Users were aggregated from a source where one user sits in several
\* selected groups, or where a filtered top-level group without subgroup
\* has a member.
C18_Witness ==
  \E e \in Runs :
    /\ UsersFetched(e)
    /\ eng[e].kc_users # <<>>
    /\ \/ \E p \in FilteredTop : kc.children[p.id] = <<>> /\ kc.members[p.id] # <<>>
       \/ \E g, h \in Range(eng[e].kc_groups) \cup FilteredTop :
            g # h /\ MembersOf({g}) \cap MembersOf({h}) # {}

\* C19: get_sync_preview issues no create, update, delete or membership
\* call, leaves the destination as it found it, and leaves the engine's
\* sync_stats untouched, also when one of its reads fails.
C19_PreviewReadOnly ==
  \A e \in Runs :
    eng[e].kind = "preview" =>
      /\ \A n \in 1..Len(eng[e].log) : eng[e].log[n].op \notin WriteOps
      /\ eng[e].sync_stats = ZeroStats
      /\ (\A d \in Runs : d > e => eng[d].pc = "new") =>
           scim_users = eng[e].pre_users /\ scim_groups = eng[e].pre_groups

\* A preview that returned, with an error, over a destination that holds
\* users.
C19_Witness ==
  \E e \in Runs :
    /\ eng[e].kind = "preview" /\ eng[e].pc = "done"
    /\ eng[e].preview # <<>> /\ eng[e].preview[1].error
    /\ Len(eng[e].log) = 4
    /\ eng[e].pre_users # {}

GroupErrorMsgs ==
  {"Failed to create group", "Failed to update members for group", "Error syncing group"}

\* The listed destination users that stand for the source user id.
Counterparts(r, id) ==
  {u \in Range(r.scim_users_list) : u.externalId = id /\ u.id # 0}

\* C20: every membership replacement carries exactly the members of the
\* subgroup that have a listed destination user with their externalId: a
\* member without one is left out, the others are still sent.  The replace
\* is issued whenever the members were fetched, and an omitted member adds
\* no error: the group errors are those of the failed calls, one each.
C20_UnmappedMemberOmitted ==
  \A e \in Runs :
    LET r == eng[e]
    IN  /\ \A n \in 1..Len(r.log) :
             r.log[n].op = "replace_group_members" =>
               \E j \in Named(e, r.log[n].name) :
                 LET members == Range(get_group_members(kc, r.kc_groups[j].id))
                     sent == Range(r.log[n].members)
                 IN  /\ \A m \in sent : \E x \in members : \E u \in Counterparts(r, x.id) : u.id = m
                     /\ \A x \in members :
                          Counterparts(r, x.id) # {} =>
                            \E u \in Counterparts(r, x.id) : u.id \in sent
        /\ \A n \in 1..(Len(r.log) - 1) :
             (r.log[n].phase = "groups" /\ r.log[n].op = "kc_members" /\ r.log[n].res = "ok")
               => r.log[n + 1].op = "replace_group_members"
        /\ Len(SelectSeq(r.sync_stats.errors, LAMBDA x : x.msg \in GroupErrorMsgs)) =
             Count(r.log, LAMBDA x : /\ x.phase = "groups" /\ x.res # "ok"
                                     /\ x.op \in {"create_group", "kc_members",
                                                   "replace_group_members"})

\* A successful replacement that carried a mapped member of a subgroup and
\* left out a member without a destination user.
C20_Witness ==
  \E e \in Runs :
    \E n \in 1..Len(eng[e].log) :
      /\ eng[e].log[n].op = "replace_group_members" /\ eng[e].log[n].res = "ok"
      /\ eng[e].log[n].members # <<>>
      /\ \E j \in Named(e, eng[e].log[n].name) :
           \E x \in Range(get_group_members(kc, eng[e].kc_groups[j].id)) :
             Counterparts(eng[e], x.id) = {}


\* C21: list_all_users / list_all_groups page until the destination is
\* exhausted: a listing none of whose page requests failed returns every one
\* of the totalResults resources exactly once, in order, whatever number of
\* resources the destination puts in a page.
C21_PagesUntilExhausted ==
  (pg.pc = "done" /\ ~pg.failed) => pg.all = Numbered(pg.total)

\* The listing is complete when no response was shorter than what was asked
\* for and available, and is then what the loop in one piece returns.
C21_CompleteWhenUncapped ==
  (pg.pc = "done" /\ ~pg.failed /\ ~pg.capped) =>
    /\ pg.all = Numbered(pg.total)
    /\ pg.all = list_all(Numbered(pg.total), 0)
    /\ pg.requests = Requests(Numbered(pg.total))

\* The calls of run e in its user phase that satisfy Test.
UserPhaseCalls(e, Test(_)) ==
  {n \in 1..Len(eng[e].log) : eng[e].log[n].phase = "users" /\ Test(eng[e].log[n])}

\* C22: sync_users is snapshot-then-apply.  The destination's users are
\* listed at most once in the phase, that listing precedes every write of
\* the phase (so no destination read lies between the first and the last
\* write), and every write is the one the listing and the source users read
\* dictate: a create only for a username the listing does not hold, an update
\* only for the listed user of that username whose externalId is the source
\* user's id, a delete only for a listed user no source user is named like;
\* a source user already handled whose username is listed under another
\* externalId got no call at all.
C22_SnapshotThenApply ==
  \A e \in Runs :
    LET r == eng[e]
        snapshot == Range(r.existing_users_list)
        reads == UserPhaseCalls(e, LAMBDA c : c.op = "list_users")
        writes == UserPhaseCalls(e, LAMBDA c : c.op \in UserWriteOps)
        handled == IF r.pc = "u_loop" THEN r.i - 1 ELSE Len(r.kc_users)
    IN  r.kind \in SyncKinds =>
          /\ Cardinality(reads) <= 1
          /\ writes # {} => reads # {}
          /\ \A m \in reads, n \in writes : m < n
          /\ \A n \in writes :
               LET c == r.log[n]
               IN  /\ c.op = "create_user" =>
                        /\ \A u \in snapshot : u.userName # c.name
                        /\ \E k \in Range(r.kc_users) : k.username = c.name
                   /\ c.op = "update_user" =>
                        \E u \in snapshot, k \in Range(r.kc_users) :
                          /\ u.userName = c.name /\ u.id = c.id
                          /\ k.username = c.name /\ k.id = u.externalId
                   /\ c.op = "delete_user" =>
                        \E u \in snapshot :
                          /\ u.id = c.id
                          /\ \A k \in Range(r.kc_users) : k.username # u.userName
          /\ (writes # {} \/ r.pc = "u_loop") =>
               \A k \in 1..Min(handled, Len(r.kc_users)) :
                 LET named == UserPhaseCalls(e, LAMBDA c :
                                /\ c.op \in {"create_user", "update_user"}
                                /\ c.name = r.kc_users[k].username)
                 IN  IF \E u \in snapshot : /\ u.userName = r.kc_users[k].username
                                            /\ u.externalId # r.kc_users[k].id
                     THEN named = {}
                     ELSE Cardinality(named) = 1

\* sync_users has returned after listing the destination, then updating the
\* user the listing held and creating the one it did not, while the
\* destination was no longer what was listed.
C22_Witness ==
  \E e \in Runs :
    /\ UsersPhaseOver(e)
    /\ UserPhaseCalls(e, LAMBDA c : c.op = "list_users" /\ c.res = "ok") # {}
    /\ UserPhaseCalls(e, LAMBDA c : c.op = "update_user" /\ c.res = "ok") # {}
    /\ UserPhaseCalls(e, LAMBDA c : c.op = "create_user" /\ c.res = "ok") # {}
    /\ Range(eng[e].existing_users_list) # scim_users

\* What the SyncState holds once the calls of the runs in order have
\* returned, in that order: the time, type and result of the last of them
\* that was not a preview.
LastRunSummary(order) ==
  LET syncs == {k \in 1..Len(order) : eng[order[k]].kind # "preview"}
  IN  IF syncs = {} THEN NoSync
      ELSE LET k == CHOOSE m \in syncs : \A n \in syncs : n <= m
           IN  [last_sync_time   |-> k,
                last_sync_type   |-> SyncType(eng[order[k]].kind),
                last_sync_result |-> <<eng[order[k]].sync_stats>>]

\* C23: the last-run summary is overwritten wholesale on each completion.
\* However manual, users-only, groups-only and scheduled runs and status
\* queries interleave, the summary held, and the summary any status query
\* was answered, is the (time, type, result) triple of one single run: the
\* sync run whose call had returned last when the query was made (the three
\* None of an untouched SyncState when none had).
C23_SummaryOfLastCompletedRun ==
  /\ get_sync_info = LastRunSummary(completed)
  /\ seen # <<>> => seen[1].info = LastRunSummary(seen[1].after)

\* Two sync runs of different types overlapped, the one started second
\* returned first, and a status query was answered after both.
C23_Witness ==
  /\ completed = <<2, 1>>
  /\ eng[1].kind # "preview" /\ eng[2].kind # "preview"
  /\ SyncType(eng[1].kind) # SyncType(eng[2].kind)
  /\ eng[1].sync_stats # eng[2].sync_stats
  /\ seen # <<>> /\ seen[1].after = completed

\* C24: concurrent runs are not mutually excluded.  Whatever the other runs
\* are doing, the manual route can start its full sync; it then lists the
\* destination and writes to it while the scheduled run is still in
\* progress.
C24_NoMutualExclusion ==
  \A e \in Runs :
    (eng[e].pc = "new" /\ \A d \in Runs : d < e => eng[d].pc # "new") =>
      ENABLED StartRun(e, "full")

\* A manual full sync, started while the scheduled full sync was in
\* progress, has listed the destination and written to it, the scheduled
\* run has written too, and both still have a write to make.
C24_Witness ==
  /\ eng[1].kind = "scheduled" /\ eng[2].kind = "full"
  /\ \A e \in Runs :
       /\ eng[e].pc \in {"u_loop", "u_delete", "g_create", "g_replace"}
       /\ \E n \in 1..Len(eng[e].log) :
            eng[e].log[n].op \in ListOps /\ eng[e].log[n].res = "ok"
       /\ \E n \in 1..Len(eng[e].log) :
            eng[e].log[n].op \in WriteOps /\ eng[e].log[n].res = "ok"
  /\ \E u \in Range(eng[2].existing_users_list) :
       \E n \in 1..Len(eng[1].log) :
         eng[1].log[n].op = "create_user" /\ eng[1].log[n].id = u.id

\* C25: a run, once started, runs to completion.  When every adapter call
\* returns, successfully or with a failure, each started sync_users,
\* sync_groups and full_sync (and each preview) returns, and the loop of
\* list_all_users / list_all_groups ends whatever pages it is answered.
C25_RunsToCompletion ==
  /\ \A e \in Runs : (eng[e].pc \in CallPcs) ~> (eng[e].pc = "done")
  /\ (pg.pc = "request") ~> (pg.pc = "done")

\* A full sync has returned after both phases, one of its calls having
\* failed on the way.
C25_Witness ==
  \E e \in Runs :
    /\ eng[e].kind = "full" /\ eng[e].pc = "done"
    /\ Len(eng[e].returned) = 2
    /\ \E n \in 1..Len(eng[e].log) : eng[e].log[n].res # "ok"
    /\ \E n \in 1..Len(eng[e].log) : eng[e].log[n].op \in GroupWriteOps

\* The failed group writes of run r, and the errors its group loop recorded.
FailedGroupWrites(r) ==
  SelectSeq(r.log, LAMBDA c : c.op \in GroupWriteOps /\ c.res # "ok")

GroupErrors(r) == SelectSeq(r.sync_stats.errors, LAMBDA x : x.msg \in GroupErrorMsgs)

\* After the call at place n of its log, made for subgroup number at, the
\* group loop of run r went on to a later subgroup or came to its end.
WentOn(r, n) ==
  IF n < Len(r.log)
  THEN r.log[n + 1].phase = "groups" /\ r.log[n + 1].at > r.log[n].at
  ELSE \/ r.pc \in {"g_create", "g_members"} /\ r.i > r.log[n].at
       \/ r.pc = "done"

\* C26: a failed create_group records one error naming the display name of
\* the group, counts nothing in groups_created, is followed by no member
\* fetch and no membership replacement for that subgroup, and the loop goes
\* on with the next subgroup; a failed membership replacement (or group
\* deletion) likewise records one error naming the display name and the loop
\* goes on.
C26_GroupWriteFailureRecorded ==
  \A e \in Runs :
    LET r == eng[e]
    IN  /\ r.sync_stats.groups_created =
             Count(r.log, LAMBDA c : c.op = "create_group" /\ c.res = "ok")
        /\ \A n \in 1..Len(r.log) :
             (r.log[n].op \in GroupWriteOps /\ r.log[n].res # "ok") =>
               /\ Count(r.sync_stats.errors,
                        LAMBDA x : x.msg \in GroupErrorMsgs /\ x.name = r.log[n].name) =
                    Count(r.log, LAMBDA c : /\ c.op \in GroupWriteOps /\ c.res # "ok"
                                            /\ c.name = r.log[n].name)
               /\ WentOn(r, n)

\* What holds instead: a write the destination rejected (an HTTP status
\* error) is recorded under the display name, a write that raised is
\* recorded under the name of the source subgroup; either way one error per
\* failed call, in call order, and the loop goes on.
C26_RejectedNamedRaisedNot ==
  \A e \in Runs :
    LET r == eng[e]
        failed == SelectSeq(r.log, LAMBDA c : /\ c.phase = "groups" /\ c.res # "ok"
                                              /\ c.op \in GroupWriteOps \cup {"kc_members"})
    IN  /\ r.sync_stats.groups_created =
             Count(r.log, LAMBDA c : c.op = "create_group" /\ c.res = "ok")
        /\ Len(GroupErrors(r)) = Len(failed)
        /\ \A n \in 1..Len(failed) :
             IF failed[n].res = "fail"
             THEN /\ GroupErrors(r)[n].name = failed[n].name
                  /\ GroupErrors(r)[n].msg # "Error syncing group"
             ELSE /\ GroupErrors(r)[n].name = r.kc_groups[failed[n].at].name
                  /\ GroupErrors(r)[n].msg = "Error syncing group"
        /\ \A n \in 1..Len(r.log) :
             (r.log[n].op \in GroupWriteOps /\ r.log[n].res # "ok") => WentOn(r, n)
        /\ \A n \in 1..Len(r.log) : r.log[n].op # "delete_group"

\* sync_users of run e returned through its outer handler.
UsersPhaseAborted(e) ==
  \E n \in 1..Len(eng[e].sync_stats.errors) : eng[e].sync_stats.errors[n].msg = "Sync failed"

\* C27: with sync_delete_users on, sync_users issues a delete for exactly
\* the users of its pre-apply listing whose username is the username of no
\* eligible source user.  No delete ever goes to anything else, in
\* particular not to a listed user whose username is an eligible one, be it
\* under another externalId; and once sync_users has returned without a
\* phase abort, each listed user with a username outside the eligible set
\* got exactly one delete.
C27_DeletesExactlyTheUnlisted ==
  \A e \in Runs :
    LET r == eng[e]
        snapshot == Range(r.existing_users_list)
        deletes == UserPhaseCalls(e, LAMBDA c : c.op = "delete_user")
    IN  r.kind \in SyncKinds =>
          /\ \A n \in deletes :
               /\ settings.sync_delete_users
               /\ \E u \in snapshot :
                    /\ u.id = r.log[n].id /\ u.userName = r.log[n].name
                    /\ u.userName \notin EligibleNames
          /\ (settings.sync_delete_users /\ UsersPhaseOver(e) /\ ~UsersPhaseAborted(e)) =>
               \A u \in snapshot :
                 Cardinality({n \in deletes : r.log[n].id = u.id}) =
                   (IF u.userName \in EligibleNames THEN 0 ELSE 1)

\* sync_users has returned having deleted a listed user outside the
\* eligible set, while the listing also held an eligible username under
\* another externalId, which is still there.
C27_Witness ==
  \E e \in Runs :
    /\ settings.sync_delete_users /\ UsersPhaseOver(e) /\ ~UsersPhaseAborted(e)
    /\ UserPhaseCalls(e, LAMBDA c : c.op = "delete_user" /\ c.res = "ok") # {}
    /\ \E u \in Range(eng[e].existing_users_list), k \in Range(eng[e].kc_users) :
         /\ u.userName = k.username /\ u.externalId # k.id
         /\ u \in scim_users

\* C28: externalId is set at creation and immutable afterwards.  In every
\* step: a user the engine creates is stored with the source user's id as
\* its externalId; no destination user that stays has its externalId changed;
\* and an update_user call goes only to a destination user whose externalId
\* is, before the call, the id of the source user of that username.
C28_ExternalIdSetOnceAtCreation ==
  [][/\ \A u \in scim_users, v \in scim_users' :
          u.id = v.id => v.externalId = u.externalId
     /\ \A e \in Runs :
          Len(eng'[e].log) = Len(eng[e].log) + 1 =>
            LET c == eng'[e].log[Len(eng'[e].log)]
                source == {k \in Range(eng[e].kc_users) : k.username = c.name}
            IN  /\ (c.op = "create_user" /\ c.res = "ok") =>
                     \E v \in scim_users' \ scim_users, k \in source :
                       v.id = c.id /\ v.externalId = k.id
                /\ c.op = "update_user" =>
                     /\ source # {}
                     /\ \A u \in scim_users : u.id = c.id =>
                          \A k \in source : u.externalId = k.id]_vars

\* A run created one user and updated another: the created one holds its
\* source user's id, the updated one still holds the externalId it was
\* listed with.
C28_Witness ==
  \E e \in Runs :
    /\ \E n \in UserPhaseCalls(e, LAMBDA c : c.op = "create_user" /\ c.res = "ok") :
         \E v \in scim_users, k \in Range(eng[e].kc_users) :
           /\ v.id = eng[e].log[n].id /\ k.username = eng[e].log[n].name
           /\ v.externalId = k.id
    /\ \E n \in UserPhaseCalls(e, LAMBDA c : c.op = "update_user" /\ c.res = "ok") :
         \E v \in scim_users, u \in Range(eng[e].existing_users_list) :
           /\ v.id = eng[e].log[n].id /\ u.id = v.id
           /\ v.externalId = u.externalId

\* The filtered top-level groups without subgroup.
ChildlessTop == {p \in FilteredTop : p.subGroupCount = 0}

\* The source users that sit in a filtered top-level group without subgroup
\* and in no filtered top-level group with subgroups nor in a child of one.
OnlyInChildless ==
  LET parents == FilteredTop \ ChildlessTop
      synced == UNION {Range(kc.children[p.id]) : p \in parents}
      reached == UNION {Range(kc.members[g.id]) : g \in parents \cup synced}
  IN  UNION {Range(kc.members[p.id]) : p \in ChildlessTop} \ reached

\* C29: a filtered top-level group without subgroup is neither synced nor
\* recorded as a parent, and no group is created under its name; a user whose only
\* membership is in such groups is not among the eligible users, gets no
\* create_user and no update_user, and, when deletion is on and the user
\* phase went through, a destination user listed under that username gets
\* a delete_user.
C29_ChildlessGroupContributesNothing ==
  \A e \in Runs :
    LET r == eng[e]
        snapshot == Range(r.existing_users_list)
    IN  r.kind \in SyncKinds =>
          /\ \A p \in ChildlessTop :
               /\ p \notin Range(r.kc_groups)
               /\ p \notin Range(DictValues(r.parent_group_map))
               /\ \A n \in 1..Len(r.log) :
                    r.log[n].op = "create_group" =>
                      r.log[n].name \notin {keycloak_realm \o p.name,
                                            keycloak_realm \o <<"unknown">> \o p.name}
          /\ \A x \in OnlyInChildless :
               /\ x \notin Range(r.kc_users)
               /\ UserPhaseCalls(e, LAMBDA c : /\ c.op \in {"create_user", "update_user"}
                                               /\ c.name = x.username) = {}
               /\ (settings.sync_delete_users /\ UsersPhaseOver(e) /\ ~UsersPhaseAborted(e)) =>
                    \A u \in snapshot :
                      u.userName = x.username =>
                        UserPhaseCalls(e, LAMBDA c : c.op = "delete_user" /\ c.id = u.id) # {}

\* With deletion on, a run went through its user phase and deleted the
\* destination user of a source user whose only group is a filtered
\* top-level group without subgroup, while it created a user of a synced
\* subgroup.
C29_Witness ==
  \E e \in Runs :
    /\ settings.sync_delete_users /\ UsersPhaseOver(e) /\ ~UsersPhaseAborted(e)
    /\ ChildlessTop # {}
    /\ UserPhaseCalls(e, LAMBDA c : c.op = "create_user" /\ c.res = "ok") # {}
    /\ \E x \in OnlyInChildless, u \in Range(eng[e].existing_users_list) :
         /\ u.userName = x.username
         /\ UserPhaseCalls(e, LAMBDA c : c.op = "delete_user" /\ c.id = u.id /\ c.res = "ok") # {}
         /\ \A v \in scim_users : v.userName # x.username

C31_CountersCountSuccessfulCalls ==
  \A e \in Runs :
    LET r == eng[e]
        Ok(op) == Count(r.log, LAMBDA c : c.op = op /\ c.res = "ok")
    IN  /\ r.sync_stats.users_created = Ok("create_user")
        /\ r.sync_stats.users_updated = Ok("update_user")
        /\ r.sync_stats.users_deleted = Ok("delete_user")
        /\ r.sync_stats.groups_created = Ok("create_group")
        /\ r.sync_stats.groups_deleted = Ok("delete_group")
        /\ Len(UserErrors(r)) = Len(FailedUserWrites(r))
        /\ Len(GroupErrors(r)) =
             Len(FailedGroupWrites(r))
               + Count(r.log, LAMBDA c : /\ c.phase = "groups" /\ c.op = "kc_members"
                                         /\ c.res # "ok")

\* A full sync has returned with users and groups created and one write
\* that failed, which its errors list holds once.
C31_Witness ==
  \E e \in Runs :
    /\ eng[e].pc = "done" /\ eng[e].kind = "full"
    /\ eng[e].sync_stats.users_created > 0
    /\ eng[e].sync_stats.groups_created > 0
    /\ Len(FailedUserWrites(eng[e])) + Len(FailedGroupWrites(eng[e])) = 1
    /\ Len(UserErrors(eng[e])) + Len(GroupErrors(eng[e])) = 1

\* C32: while two full syncs are both in progress and no call has failed
\* for a reason outside the destination, no source user has a create_user
\* call in both runs and no canonical group name has a successful
\* create_group in both.
C32_ConcurrentRunsCreateOnce ==
  \A d, e \in Runs :
    (/\ d < e /\ faults = 0
     /\ eng[d].kind \in {"full", "scheduled"} /\ eng[e].kind \in {"full", "scheduled"}
     /\ eng[d].pc \notin {"new", "done"} /\ eng[e].pc \notin {"new", "done"}) =>
      /\ \A m \in 1..Len(eng[d].log), n \in 1..Len(eng[e].log) :
           (eng[d].log[m].op = "create_user" /\ eng[e].log[n].op = "create_user") =>
             eng[d].log[m].name # eng[e].log[n].name
      /\ \A m \in 1..Len(eng[d].log), n \in 1..Len(eng[e].log) :
           (/\ eng[d].log[m].op = "create_group" /\ eng[d].log[m].res = "ok"
            /\ eng[e].log[n].op = "create_group" /\ eng[e].log[n].res = "ok") =>
             eng[d].log[m].name # eng[e].log[n].name

\* The source reads of a phase of run r that failed.
FailedSourceReads(r, phase) ==
  {n \in 1..Len(r.log) : /\ r.log[n].phase = phase
                          /\ r.log[n].op \in {"kc_groups", "kc_members"}
                          /\ r.log[n].res # "ok"}

Unowned(r) == {u \in Range(r.existing_users_list) : u.externalId = ""}

\* C34 as claimed: sync_users never issues a delete_user for a listed
\* destination user that has no externalId.
C34_NeverDeletesUnowned ==
  \A e \in Runs :
    \A u \in Unowned(eng[e]) :
      UserPhaseCalls(e, LAMBDA c : c.op = "delete_user" /\ c.id = u.id) = {}

\* C34 as amended: deletion goes by username alone.  With the switch on
\* and the user phase gone through, a listed destination user without
\* externalId got a delete_user exactly when no eligible source user has
\* its username; it never gets an update_user.
C34_UnownedDeletedByUsername ==
  \A e \in Runs :
    \A u \in Unowned(eng[e]) :
      /\ UserPhaseCalls(e, LAMBDA c : c.op = "update_user" /\ c.id = u.id) = {}
      /\ (settings.sync_delete_users /\ UsersPhaseOver(e) /\ ~UsersPhaseAborted(e)) =>
           (UserPhaseCalls(e, LAMBDA c : c.op = "delete_user" /\ c.id = u.id) # {}
              <=> u.userName \notin EligibleNames)

\* A run deleted a destination user that it had listed without externalId.
C34_Witness ==
  \E e \in Runs :
    /\ settings.sync_delete_users /\ UsersPhaseOver(e)
    /\ \E u \in Unowned(eng[e]) :
         /\ UserPhaseCalls(e, LAMBDA c : /\ c.op = "delete_user" /\ c.id = u.id
                                         /\ c.res = "ok") # {}
         /\ \A v \in scim_users : v.id # u.id

\* C35: a preview followed by sync_users over the same source and
\* destination, every call succeeding, agrees with it: the preview returned
\* its lists, users_to_create names exactly the users sync_users created,
\* users_to_update exactly those it updated, users_to_delete exactly those
\* it deleted, and a user skipped as a conflict is in none of the lists.
C35_PreviewAgreesWithSyncUsers ==
  \A e, d \in Runs :
    (/\ e < d /\ faults = 0
     /\ eng[e].kind = "preview" /\ eng[e].pc = "done"
     /\ eng[d].kind \in SyncKinds /\ UsersPhaseOver(d)) =>
      LET p == eng[e].preview[1]
          Called(op) == {eng[d].log[n].name : n \in UserPhaseCalls(d, LAMBDA c : c.op = op)}
      IN  /\ ~p.error
          /\ Range(p.users_to_create) = Called("create_user")
          /\ Range(p.users_to_update) = Called("update_user")
          /\ {u.userName : u \in Range(p.users_to_delete)} = Called("delete_user")
          /\ \A k \in Range(eng[d].kc_users) :
               UserAction(eng[d], k) = "skip" =>
                 k.username \notin Range(p.users_to_create) \cup Range(p.users_to_update)

\* C36: the user phase of a run issues no call that writes a destination
\* group and the group phase none that writes a destination user; while the
\* runs follow one another, a step of a run in its user phase leaves
\* scim_groups as it is and a step of a run in its group phase leaves
\* scim_users as it is.
C36_PhasesWriteTheirOwnKind ==
  [][\A e \in Runs :
       /\ \A n \in 1..Len(eng'[e].log) :
            /\ eng'[e].log[n].phase = "users" => eng'[e].log[n].op \notin GroupWriteOps
            /\ eng'[e].log[n].phase = "groups" => eng'[e].log[n].op \notin UserWriteOps
       /\ (Len(eng'[e].log) = Len(eng[e].log) + 1 /\ eng[e].phase > 0) =>
            /\ PhaseOf(eng[e]) = "users" => scim_groups' = scim_groups
            /\ PhaseOf(eng[e]) = "groups" => scim_users' = scim_users]_vars

\* A full sync has returned that wrote users in its user phase and groups
\* and membership in its group phase.
C36_Witness ==
  \E e \in Runs :
    /\ eng[e].pc = "done" /\ eng[e].kind = "full"
    /\ UserPhaseCalls(e, LAMBDA c : c.op \in UserWriteOps /\ c.res = "ok") # {}
    /\ \E n \in 1..Len(eng[e].log) :
         /\ eng[e].log[n].phase = "groups" /\ eng[e].log[n].res = "ok"
         /\ eng[e].log[n].op = "replace_group_members"
    /\ scim_users # eng[e].pre_users /\ scim_groups # eng[e].pre_groups

\* C37: the health endpoint answers `degraded` exactly when a sync is
\* recorded that did not fully succeed: its result has a non-empty errors
\* list, or it is the error result of a scheduled job that raised.
C37_DegradedWhenLastSyncFailed ==
  seen # <<>> =>
    LET recorded == seen[1].info.last_sync_result
        failed == /\ recorded # <<>>
                  /\ \/ "error" \in DOMAIN recorded[1]
                     \/ "errors" \in DOMAIN recorded[1] /\ recorded[1].errors # <<>>
    IN  seen[1].status = IF failed THEN "degraded" ELSE "healthy"

\* C38: whenever the scheduler holds, or a status query was answered, both a
\* last_sync time and a last_sync_result, the two were written by the same
\* scheduled run.
C38_SchedulerStatusOfOneRun ==
  /\ (scheduler.last_sync # <<>> /\ scheduler.last_sync_result # <<>>) =>
       scheduler.started = scheduler.finished
  /\ (seen # <<>> /\ seen[1].job.last_sync # <<>> /\ seen[1].job.last_sync_result # <<>>) =>
       seen[1].started = seen[1].finished

====
